---------------------------- MODULE Spec2Model ----------------------------
(***************************************************************************)
(* Model of the chemical-equipment-visualizer backend (Django REST views   *)
(* over the DatasetUpload and Equipment tables).                           *)
(*                                                                         *)
(* Every action is one database statement of a request handler together    *)
(* with the Python code that runs before it: the project sets neither      *)
(* ATOMIC_REQUESTS nor any transaction.atomic block, so each ORM call      *)
(* commits on its own and concurrent handlers interleave between calls.    *)
(***************************************************************************)
EXTENDS Integers, Sequences, FiniteSets, TLC

(***************************************************************************)
(* Bounds of the model.                                                    *)
(***************************************************************************)
MaxDatasets == 2     \* dataset INSERTs in one behaviour of Spec
MaxRetained == 7     \* dataset INSERTs in one behaviour of SpecRetention
MaxFaults == 1       \* storage failures injected in one behaviour
MaxTies == 1         \* INSERTs that read the same clock value as the one before
MaxEdits == 1        \* dataset deletions and row mutations in one behaviour
MaxAdds == 2         \* add_row transactions in one behaviour of SpecAdds
MaxKeys == 3         \* tokens created in one behaviour of SpecAuth

Users == {"alice", "bob"}
Procs == {1, 2}
Engines == {"sqlite3", "postgresql"}

NoId == 0

(***************************************************************************)
(* Uploaded files.  A cell is what pandas.read_csv sees in one field:      *)
(* a number, a blank field (read as NaN) or some other text.  A header     *)
(* carries the white space around its text so that str.strip() has         *)
(* something to do.                                                        *)
(***************************************************************************)
Num(n) == [k |-> "num", n |-> n, s |-> ""]
Blank == [k |-> "blank", n |-> 0, s |-> ""]
Text(s) == [k |-> "text", n |-> 0, s |-> s]

Hdr(s) == [lpad |-> 0, text |-> s, rpad |-> 0]
Padded(s) == [lpad |-> 1, text |-> s, rpad |-> 2]

NaN == [k |-> "nan", n |-> 0]
Val(n) == [k |-> "val", n |-> n]

\* df.columns.str.strip()
Strip(h) == h.text

StripAll(headers) == [i \in DOMAIN headers |-> Strip(headers[i])]

Range(f) == {f[i] : i \in DOMAIN f}

column_mapping ==
    ("Equipment Name" :> <<"Equipment Name", "equipment_name", "Name", "name">>) @@
    ("Type" :> <<"Type", "type", "Equipment Type", "equipment_type">>) @@
    ("Flowrate" :> <<"Flowrate", "flowrate", "Flow Rate", "flow_rate">>) @@
    ("Pressure" :> <<"Pressure", "pressure">>) @@
    ("Temperature" :> <<"Temperature", "temperature", "Temp", "temp">>)

required == <<"Equipment Name", "Type", "Flowrate", "Pressure", "Temperature">>

\* The first variation of the list that is a column of the frame, "" if none.
FirstPresentFrom(variations, cols, i) ==
    LET Rec[j \in 1..(Len(variations) + 1)] ==
            IF j > Len(variations) THEN ""
            ELSE IF variations[j] \in cols THEN variations[j]
            ELSE Rec[j + 1]
    IN Rec[i]

\* The first-match-wins search with every synonym list cut to its first
\* entry only: what the loop does if it stops after one variation.
FirstPresentOnlyCanonical(variations, cols) ==
    IF variations[1] \in cols THEN variations[1] ELSE ""

\* The search run from the end of the list: the last variation that is a
\* column wins.
LastPresent(variations, cols) ==
    LET hits == {j \in DOMAIN variations : variations[j] \in cols}
    IN IF hits = {} THEN ""
       ELSE variations[CHOOSE j \in hits : \A k \in hits : k <= j]

FirstPresent(variations, cols) == FirstPresentFrom(variations, cols, 1)

\* actual_columns: standard name -> the header that satisfies it ("" if none)
actual_columns(cols) ==
    [f \in DOMAIN column_mapping |-> FirstPresent(column_mapping[f], cols)]

\* missing = [col for col in required if col not in actual_columns]
missing(cols) ==
    LET ac == actual_columns(cols)
        Absent(f) == ac[f] = ""
    IN SelectSeq(required, Absent)

(***************************************************************************)
(* pandas: the frame read from the file.                                   *)
(***************************************************************************)
\* Index of the column whose stripped header is col (0 if there is none).
ColumnIndex(csv, col) ==
    LET hits == {i \in DOMAIN csv.headers : Strip(csv.headers[i]) = col}
    IN IF hits = {} THEN 0 ELSE CHOOSE i \in hits : \A j \in hits : i <= j

\* The cells of the column at the field's place in the canonical order,
\* whatever the headers say.
ColumnByPosition(csv, f) ==
    LET i == CHOOSE j \in DOMAIN required : required[j] = f
    IN [r \in DOMAIN csv.rows |-> csv.rows[r][i]]

\* df[col] after the rename: the cells of the header chosen for field f.
Column(csv, f) ==
    LET i == ColumnIndex(csv, actual_columns(Range(StripAll(csv.headers)))[f])
    IN [r \in DOMAIN csv.rows |-> csv.rows[r][i]]

\* read_csv gives a float64 column when every field is a number or blank,
\* and an object column of strings otherwise.
IsNumericColumn(cells) == \A i \in DOMAIN cells : cells[i].k \in {"num", "blank"}

RECURSIVE SumCells(_)
SumCells(cells) ==
    IF cells = <<>> THEN 0
    ELSE (IF Head(cells).k = "num" THEN Head(cells).n ELSE 0) + SumCells(Tail(cells))

CountCells(cells) == Cardinality({i \in DOMAIN cells : cells[i].k = "num"})

\* Nearest integer to num/den (den > 0), a tie going to the even neighbour.
RoundHalfEven(num, den) ==
    LET q == num \div den
        r == num % den
    IN IF 2 * r < den THEN q
       ELSE IF 2 * r > den THEN q + 1
       ELSE IF q % 2 = 0 THEN q ELSE q + 1

\* round(df[col].mean(), 2), in hundredths.  Series.mean() skips NaN, is
\* NaN when nothing is left, and raises TypeError on a column of strings.
RoundedMean(cells) ==
    IF Len(cells) = 0 THEN NaN
    ELSE IF ~IsNumericColumn(cells) THEN [k |-> "raise", n |-> 0]
    ELSE IF CountCells(cells) = 0 THEN NaN
    ELSE Val(RoundHalfEven(100 * SumCells(cells), CountCells(cells)))

\* df['Type'].value_counts().to_dict(): NaN labels are dropped.
Label(cell) == IF cell.k = "num" THEN ToString(cell.n) ELSE cell.s

value_counts(cells) ==
    LET labels == {Label(cells[i]) : i \in {j \in DOMAIN cells : cells[j].k # "blank"}}
    IN [l \in labels |->
          Cardinality({i \in DOMAIN cells : cells[i].k # "blank" /\ Label(cells[i]) = l})]

\* What a model field stores for a cell: CharField saves str(value), so a
\* NaN name or type is stored as the text 'nan'; FloatField keeps NaN.
CharValue(cell) == IF cell.k = "blank" THEN "nan" ELSE Label(cell)

FloatValue(cell) == IF cell.k = "num" THEN Val(100 * cell.n) ELSE NaN

\* The Equipment objects built by the loop over df.iterrows().
equipment_objects(csv) ==
    [r \in DOMAIN csv.rows |->
        [ name |-> CharValue(Column(csv, "Equipment Name")[r]),
          equipment_type |-> CharValue(Column(csv, "Type")[r]),
          flowrate |-> FloatValue(Column(csv, "Flowrate")[r]),
          pressure |-> FloatValue(Column(csv, "Pressure")[r]),
          temperature |-> FloatValue(Column(csv, "Temperature")[r]) ]]

HasNaN(objs) ==
    \E i \in DOMAIN objs :
        NaN \in {objs[i].flowrate, objs[i].pressure, objs[i].temperature}

(***************************************************************************)
(* The uploaded files the requests choose from.  A file that was not sent  *)
(* at all is the request without a 'file' part.                            *)
(***************************************************************************)
Canonical == <<Hdr("Equipment Name"), Hdr("Type"), Hdr("Flowrate"),
               Hdr("Pressure"), Hdr("Temperature")>>

Table(fname, headers, rows) ==
    [sent |-> TRUE, filename |-> fname, bytes |-> "table", headers |-> headers, rows |-> rows]

FileTable ==
    [ none |-> [sent |-> FALSE, filename |-> "", bytes |-> "", headers |-> <<>>, rows |-> <<>>],
      notcsv |-> Table("data.txt", Canonical,
                       << <<Text("Pump-1"), Text("Pump"), Num(10), Num(5), Num(100)>> >>),
      empty |-> [sent |-> TRUE, filename |-> "data.csv", bytes |-> "", headers |-> <<>>, rows |-> <<>>],
      header_only |-> Table("data.csv", Canonical, <<>>),
      no_pressure |-> Table("data.csv",
                       <<Hdr("Name"), Hdr("Type"), Hdr("Flowrate"), Hdr("Temp")>>,
                       << <<Text("Pump-1"), Text("Pump"), Num(10), Num(100)>> >>),
      wrong_case |-> Table("data.csv",
                       <<Hdr("NAME"), Hdr("Type"), Hdr("flow rate"), Hdr("pressure"), Hdr("Temp")>>,
                       << <<Text("Pump-1"), Text("Pump"), Num(10), Num(5), Num(100)>> >>),
      text_cell |-> Table("data.csv", Canonical,
                       << <<Text("Pump-1"), Text("Pump"), Num(10), Text("high"), Num(100)>>,
                          <<Text("Valve-1"), Text("Valve"), Num(20), Num(6), Num(-40)>> >>),
      blank_cell |-> Table("data.csv", Canonical,
                       << <<Text("Pump-1"), Text("Pump"), Num(10), Num(5), Num(100)>>,
                          <<Text("Valve-1"), Text("Valve"), Blank, Num(6), Num(-40)>> >>),
      one_row |-> Table("data.csv", Canonical,
                       << <<Text("Pump-1"), Text("Pump"), Num(10), Num(5), Num(100)>> >>),
      two_rows |-> Table("data.csv",
                       <<Padded("Temp"), Hdr("type"), Hdr("flow_rate"), Hdr("name"), Padded("pressure")>>,
                       << <<Num(-40), Text("Valve"), Num(20), Text("Valve-1"), Num(6)>>,
                          <<Num(90), Text("Pump"), Num(11), Text("Pump-2"), Num(7)>> >>),
      blank_type |-> Table("data.csv", Canonical,
                       << <<Text("Pump-1"), Text("Pump"), Num(10), Num(5), Num(100)>>,
                          <<Text("Valve-1"), Blank, Num(20), Num(6), Num(-40)>> >>),
      equip_name |-> Table("data.csv",
                       <<Hdr("equip_name"), Hdr("Flow Rate"), Hdr("Pressure"), Hdr("Temp"), Hdr("Type")>>,
                       << <<Text("Pump-1"), Num(10), Num(5), Num(100), Text("Pump")>>,
                          <<Text("Valve-1"), Num(20), Num(6), Num(-40), Text("Valve")>>,
                          <<Text("Pump-2"), Num(11), Num(7), Num(90), Text("Pump")>> >>),
      equipment_name |-> Table("data.csv",
                       <<Hdr("equipment_name"), Hdr("Flow Rate"), Hdr("Pressure"), Hdr("Temp"), Hdr("Type")>>,
                       << <<Text("Pump-1"), Num(10), Num(5), Num(100), Text("Pump")>>,
                          <<Text("Valve-1"), Num(20), Num(6), Num(-40), Text("Valve")>>,
                          <<Text("Pump-2"), Num(11), Num(7), Num(90), Text("Pump")>> >>),
      syn_fwd |-> Table("data.csv",
                       <<Padded("name"), Hdr("Name"), Hdr("NAME"), Hdr("Type"), Hdr("flow_rate"),
                         Hdr("Flowrate"), Hdr("Pressure"), Hdr("temp"), Padded("Temp")>>,
                       << <<Text("low-1"), Text("Cap-1"), Text("UP-1"), Text("Pump"), Num(1),
                            Num(10), Num(5), Num(-40), Num(100)>> >>),
      syn_rev |-> Table("data.csv",
                       <<Padded("Temp"), Hdr("temp"), Hdr("Pressure"), Hdr("Flowrate"),
                         Hdr("flow_rate"), Hdr("Type"), Hdr("NAME"), Hdr("Name"), Padded("name")>>,
                       << <<Num(100), Num(-40), Num(5), Num(10), Num(1), Text("Pump"),
                            Text("UP-1"), Text("Cap-1"), Text("low-1")>> >>),
      numeric_name |-> Table("data.csv", Canonical,
                       << <<Num(101), Text("Pump"), Num(10), Num(5), Num(100)>>,
                          <<Num(102), Text("Valve"), Num(20), Num(6), Num(-40)>> >>) ]

Files == {"none", "notcsv", "empty", "header_only", "no_pressure", "wrong_case",
          "text_cell", "blank_cell", "one_row", "two_rows"}

\* A blank Type cell, and the header lists of two worked examples.
ExampleFiles == {"blank_type", "equip_name", "equipment_name"}

\* Several accepted names of one field side by side, in two column orders,
\* and names that differ from accepted ones in case only.
PriorityFiles == {"syn_fwd", "syn_rev", "wrong_case"}

\* Names written as text and names written as numbers.
RoundTripFiles == {"one_row", "two_rows", "numeric_name"}

RetentionFiles == {"one_row", "blank_cell"}

\* csv_file.name.endswith('.csv')
EndsWithCsv(fname) == fname \in {"data.csv"}

(***************************************************************************)
(* State.                                                                  *)
(***************************************************************************)
VARIABLES
    engine,             \* DATABASES['default'] ENGINE, fixed at start-up
    datasets,           \* the DatasetUpload table
    equipment,          \* the Equipment table
    next_dataset_id,    \* the tables' auto-increment sequences
    next_equipment_id,
    now,                \* timezone.now()
    pc,                 \* per worker: where its handler stands
    req,                \* per worker: the request it serves and the handler's locals
    resp,               \* the response on its way to the client, NoResp if none
    faults,             \* storage failures injected so far
    ties,               \* INSERTs so far that read an unchanged clock
    edits,              \* dataset deletions and row mutations so far
    evicted,            \* history: per user, the newest uploaded_at the cleanup deleted
    ok_uploads,         \* history: per user, 201 uploads since the user's last delete
    auth_user,          \* the User table: the names registered
    authtoken_token,    \* the Token table: per user the key of the token, NoKey if none
    next_key,           \* the next key Token.generate_key() hands out
    revoked,            \* history: tokens logged out, their user not logged in since
    api,                \* the desktop client's APIService object
    main_window,        \* the desktop client's MainWindow object
    sent                \* the desktop client's latest request

\* What the handlers of the data endpoints leave alone.
cvars == <<auth_user, authtoken_token, next_key, revoked, api, main_window, sent>>

vars == <<engine, datasets, equipment, next_dataset_id, next_equipment_id, now,
          pc, req, resp, faults, ties, edits, evicted, ok_uploads, cvars>>

keep_count == 5

NoReq == [op |-> "none", user |-> "", file |-> "none", dataset |-> NoId, at |-> 0]
NoResp == [op |-> "none", user |-> "", status |-> 0, dataset |-> NoId, body |-> <<>>,
           summary |-> {}, rows |-> {}]

NoKey == 0

\* No request yet.
NoRequest ==
    [op |-> "none", auth |-> NoKey, user |-> "", password |-> "", dataset |-> NoId,
     row |-> NoId, pending |-> FALSE]

\* MainWindow.__init__: nothing loaded, nothing selected, an empty table
\* and an empty history list; no handler is waiting for an answer.
NewWindow ==
    [current_data |-> FALSE, selected_dataset_id |-> NoId, data_table |-> {},
     history_list |-> <<>>, at |-> "idle", item |-> NoId]

\* Every user is registered and holds a token, the desktop client has just
\* been started.
Accounts ==
    /\ auth_user = Users
    /\ authtoken_token = [u \in Users |-> IF u = "alice" THEN 1 ELSE 2]
    /\ next_key = 3
    /\ revoked = {}
    /\ api = [token |-> NoKey]
    /\ main_window = NewWindow
    /\ sent = NoRequest

Init ==
    /\ Accounts
    /\ engine \in Engines
    /\ datasets = {}
    /\ equipment = {}
    /\ next_dataset_id = 1
    /\ next_equipment_id = 1
    /\ now = 0
    /\ pc = [p \in Procs |-> "idle"]
    /\ req = [p \in Procs |-> NoReq]
    /\ resp = NoResp
    /\ faults = 0
    /\ ties = 0
    /\ edits = 0
    /\ evicted = [u \in Users |-> 0]
    /\ ok_uploads = [u \in Users |-> 0]

(***************************************************************************)
(* Queries.                                                                *)
(***************************************************************************)
\* DatasetUpload.objects.filter(user=user)
Owned(u) == {d \in datasets : d.user = u}

\* DatasetUpload.objects.get(id=dataset_id, user=request.user): the set is
\* empty when the lookup raises DoesNotExist.
GetDatasetAnyUser(id, u) == {d \in datasets : d.id = id}

GetDataset(id, u) == {d \in datasets : d.id = id /\ d.user = u}

\* dataset.equipment_list
EquipmentOf(id) == {e \in equipment : e.dataset = id}

\* on_delete=CASCADE: deleting datasets deletes their Equipment rows
CascadeOnlyDatasets(ids) == equipment

Cascade(ids) == {e \in equipment : e.dataset \notin ids}

(***************************************************************************)
(* Plumbing shared by the handlers.                                        *)
(***************************************************************************)
AllIdle == \A q \in Procs : pc[q] = "idle"

\* A response is observed as soon as it is sent: no statement runs between
\* a handler's return and the delivery of what it returned.  No handler
\* reads resp, so this orders the observations only.
Quiet == resp = NoResp

\* A request is taken up: at any time when requests are served concurrently,
\* only when no handler is running in the one-request-at-a-time setting.
MayStart(conc) == Quiet /\ (conc \/ AllIdle)

\* Worker p stands at label and may run its next statement.
At(p, label) == Quiet /\ pc[p] = label

\* Whether the statement about to run fails in the storage layer.
FaultChoices(maxf) == IF faults < maxf THEN BOOLEAN ELSE {FALSE}

\* A response is what the client of user u gets back from view op: the
\* status and the body, with the dataset id where the body carries one.
\* A response without data: a message only.
Response(op, u, status, id, body) ==
    [op |-> op, user |-> u, status |-> status, dataset |-> id, body |-> body,
     summary |-> {}, rows |-> {}]

\* A response that carries dataset records (summary) and Equipment rows.
DataResponse(op, u, status, id, ds, rows) ==
    [op |-> op, user |-> u, status |-> status, dataset |-> id, body |-> <<>>,
     summary |-> ds, rows |-> rows]

\* The handler of worker p returns r.
Reply(p, r) ==
    /\ pc' = [pc EXCEPT ![p] = "idle"]
    /\ resp' = r

\* A view that is a single step answers r; the upload workers stand still.
Answer(r) ==
    /\ resp' = r
    /\ UNCHANGED <<pc, req>>

Goto(p, label) ==
    /\ pc' = [pc EXCEPT ![p] = label]
    /\ resp' = resp
    /\ req' = req

(***************************************************************************)
(* upload_csv                                                              *)
(***************************************************************************)
Stats(csv) ==
    [ total_equipment |-> Len(csv.rows),
      avg_flowrate |-> RoundedMean(Column(csv, "Flowrate")),
      avg_pressure |-> RoundedMean(Column(csv, "Pressure")),
      avg_temperature |-> RoundedMean(Column(csv, "Temperature")),
      type_distribution |-> value_counts(Column(csv, "Type")) ]

Averages(st) == {st.avg_flowrate, st.avg_pressure, st.avg_temperature}

\* The row DatasetUpload.objects.create() inserts: type_distribution and
\* raw_data still hold their defaults, they are written by the later save().
NewDataset(id, u, t, st) ==
    [ id |-> id, user |-> u, uploaded_at |-> t,
      total_equipment |-> st.total_equipment,
      avg_flowrate |-> st.avg_flowrate,
      avg_pressure |-> st.avg_pressure,
      avg_temperature |-> st.avg_temperature,
      type_distribution |-> <<>> ]

\* A float NaN bound to a NOT NULL column: SQLite stores NaN as NULL and
\* rejects the row, PostgreSQL stores it.
RejectsNaN == engine = "sqlite3"

\* The 201 body holds the averages and every cell of the five columns; the
\* JSON renderer refuses NaN (STRICT_JSON), after the view has returned.
RendersNaN(csv) ==
    \/ NaN \in Averages(Stats(csv))
    \/ \E f \in DOMAIN column_mapping :
          \E r \in DOMAIN csv.rows : Column(csv, f)[r].k = "blank"

\* Lines 106-175: the checks, the statistics and the INSERT of the dataset.
UploadBegin(p, u, f, cfg) ==
    LET csv == FileTable[f]
        cols == Range(StripAll(csv.headers))
        st == Stats(csv)
        r0 == [op |-> "upload", user |-> u, file |-> f, dataset |-> NoId, at |-> 0]
        Reject(status, body) ==
            /\ Reply(p, Response("upload", u, status, NoId, body))
            /\ req' = [req EXCEPT ![p] = r0]
            /\ UNCHANGED <<datasets, next_dataset_id, now, ties, faults>>
    IN
    /\ pc[p] = "idle"
    /\ MayStart(cfg.conc)
    /\ UNCHANGED <<cvars, engine, equipment, next_equipment_id, edits, evicted, ok_uploads>>
    /\ IF ~csv.sent THEN Reject(400, <<"No file provided">>)
       ELSE IF ~EndsWithCsv(csv.filename) THEN Reject(400, <<"File must be a CSV">>)
       ELSE IF csv.bytes = "" THEN Reject(400, <<"CSV file is empty">>)
       ELSE IF missing(cols) # <<>> THEN Reject(400, <<"Missing required columns">> \o missing(cols))
       ELSE IF \E a \in Averages(st) : a.k = "raise" THEN Reject(500, <<"Error processing file">>)
       ELSE IF NaN \in Averages(st) /\ RejectsNaN THEN Reject(500, <<"Error processing file">>)
       ELSE
         /\ next_dataset_id <= cfg.maxd
         /\ \E fail \in FaultChoices(cfg.maxf) :
            \E t \in {now + 1} \cup (IF ties < cfg.maxt /\ datasets # {} THEN {now} ELSE {}) :
              IF fail
              THEN /\ Reply(p, Response("upload", u, 500, NoId, <<"Error processing file">>))
                   /\ req' = [req EXCEPT ![p] = r0]
                   /\ faults' = faults + 1
                   /\ UNCHANGED <<datasets, next_dataset_id, now, ties>>
              ELSE /\ datasets' = datasets \cup {NewDataset(next_dataset_id, u, t, st)}
                   /\ next_dataset_id' = next_dataset_id + 1
                   /\ now' = t
                   /\ ties' = ties + (IF t = now THEN 1 ELSE 0)
                   /\ req' = [req EXCEPT ![p] = [r0 EXCEPT !.dataset = next_dataset_id, !.at = t]]
                   /\ pc' = [pc EXCEPT ![p] = "save"]
                   /\ resp' = resp
                   /\ faults' = faults

\* Lines 176-181: dataset.save().  Model.save() issues an UPDATE of every
\* field and, when no row matched, falls back to an INSERT with the same
\* primary key (auto_now_add then stamps a fresh uploaded_at).
UploadSave(p, cfg) ==
    LET u == req[p].user
        id == req[p].dataset
        st == Stats(FileTable[req[p].file])
        stored == {d \in datasets : d.id = id}
        t == IF stored = {} THEN now + 1 ELSE req[p].at
        obj == [NewDataset(id, u, t, st) EXCEPT !.type_distribution = st.type_distribution]
    IN
    /\ At(p, "save")
    /\ UNCHANGED <<cvars, engine, equipment, next_dataset_id, next_equipment_id, ties, edits,
                   evicted, ok_uploads>>
    /\ \E fail \in FaultChoices(cfg.maxf) :
         IF fail
         THEN /\ Reply(p, Response("upload", u, 500, NoId, <<"Error processing file">>))
              /\ faults' = faults + 1
              /\ UNCHANGED <<datasets, now, req>>
         ELSE /\ datasets' = (datasets \ stored) \cup {obj}
              /\ now' = IF stored = {} THEN t ELSE now
              /\ req' = [req EXCEPT ![p].at = t]
              /\ pc' = [pc EXCEPT ![p] = "bulk"]
              /\ resp' = resp
              /\ faults' = faults

\* bulk_create given the first object of the list only.
NewRowsFirstOnly(id, objs) ==
    { [ id |-> next_equipment_id + i - 1, dataset |-> id,
        name |-> objs[i].name, equipment_type |-> objs[i].equipment_type,
        flowrate |-> objs[i].flowrate, pressure |-> objs[i].pressure,
        temperature |-> objs[i].temperature, recorded_at |-> now ] : i \in {1} }

\* The Equipment rows bulk_create inserts for dataset id.
NewRows(id, objs) ==
    { [ id |-> next_equipment_id + i - 1, dataset |-> id,
        name |-> objs[i].name, equipment_type |-> objs[i].equipment_type,
        flowrate |-> objs[i].flowrate, pressure |-> objs[i].pressure,
        temperature |-> objs[i].temperature, recorded_at |-> now ] : i \in DOMAIN objs }

\* Lines 183-194: Equipment.objects.bulk_create(equipment_objects), one
\* atomic INSERT.  It is a no-op for an empty list; it raises IntegrityError
\* when the dataset row is gone (foreign key) or a NaN meets NOT NULL.
UploadBulk(p, cfg) ==
    LET u == req[p].user
        id == req[p].dataset
        objs == equipment_objects(FileTable[req[p].file])
        Fail ==
            /\ Reply(p, Response("upload", u, 500, NoId, <<"Error processing file">>))
            /\ UNCHANGED <<equipment, next_equipment_id, req>>
    IN
    /\ At(p, "bulk")
    /\ UNCHANGED <<cvars, engine, datasets, next_dataset_id, now, ties, edits, evicted,
                   ok_uploads>>
    /\ IF objs = <<>>
       THEN Goto(p, "cleanup_count") /\ UNCHANGED <<equipment, next_equipment_id, faults>>
       ELSE \E fail \in FaultChoices(cfg.maxf) :
              IF fail THEN Fail /\ faults' = faults + 1
              ELSE /\ faults' = faults
                   /\ IF {d \in datasets : d.id = id} = {} \/ (HasNaN(objs) /\ RejectsNaN)
                      THEN Fail
                      ELSE /\ equipment' = equipment \cup NewRows(id, objs)
                           /\ next_equipment_id' = next_equipment_id + Len(objs)
                           /\ Goto(p, "cleanup_count")

\* A value of a JSON body: a number (in hundredths) or a string.
JsonNumber(h) == [t |-> "number", n |-> h, s |-> ""]

JsonString(str) == [t |-> "string", n |-> 0, s |-> str]

\* row[col] of df.iterrows() as the renderer writes it: the cell as pandas
\* read it, a number for a numeric cell and a string for any other text.
JsonCell(cell) == IF cell.k = "num" THEN JsonNumber(100 * cell.n) ELSE JsonString(cell.s)

\* Lines 200-207: the equipment_list of the 201 body, built from the frame;
\* 'id' is the frame's index plus one.
equipment_list(csv) ==
    [r \in DOMAIN csv.rows |->
        [ id |-> r,
          name |-> JsonCell(Column(csv, "Equipment Name")[r]),
          type |-> JsonCell(Column(csv, "Type")[r]),
          flowrate |-> JsonCell(Column(csv, "Flowrate")[r]),
          pressure |-> JsonCell(Column(csv, "Pressure")[r]),
          temperature |-> JsonCell(Column(csv, "Temperature")[r]) ]]

\* Lines 209-220: the 201 body.
Created(u, id, csv) ==
    [op |-> "upload", user |-> u, status |-> 201, dataset |-> id,
     body |-> <<"File uploaded successfully">>, summary |-> {}, rows |-> {},
     stats |-> Stats(csv), equipment_list |-> equipment_list(csv)]

\* What the view returns once the cleanup is through: 201, unless the
\* renderer meets a NaN in the body and the client is sent a 500.
UploadReply(p) ==
    LET u == req[p].user
        ok == ~RendersNaN(FileTable[req[p].file])
    IN
    /\ Reply(p, IF ok THEN Created(u, req[p].dataset, FileTable[req[p].file])
                ELSE Response("upload", u, 500, NoId, <<"Server Error">>))
    /\ req' = req
    /\ ok_uploads' = [ok_uploads EXCEPT ![u] = IF ok THEN @ + 1 ELSE @]

\* Line 46: uploads.count() > keep_count
CleanupCount(p, cfg) ==
    LET u == req[p].user
    IN
    /\ At(p, "cleanup_count")
    /\ UNCHANGED <<cvars, engine, datasets, equipment, next_dataset_id, next_equipment_id, now,
                   ties, edits, evicted>>
    /\ \E fail \in FaultChoices(cfg.maxf) :
         IF fail
         THEN /\ Reply(p, Response("upload", u, 500, NoId, <<"Error processing file">>))
              /\ req' = req
              /\ faults' = faults + 1
              /\ ok_uploads' = ok_uploads
         ELSE /\ faults' = faults
              /\ IF Cardinality(Owned(u)) > keep_count
                 THEN Goto(p, "cleanup_delete") /\ ok_uploads' = ok_uploads
                 ELSE UploadReply(p)

\* The orderings order_by('-uploaded_at') may return cut to keep_count: the
\* ids of any keep_count rows of the user that no other row of the user is
\* newer than.  Rows with equal uploaded_at come in an order the database
\* picks, so there can be several such sets.
ids_to_keep_oldest(u) ==
    { K \in SUBSET {d.id : d \in Owned(u)} :
        /\ Cardinality(K) = IF Cardinality(Owned(u)) < keep_count
                            THEN Cardinality(Owned(u)) ELSE keep_count
        /\ \A d \in Owned(u), e \in Owned(u) :
              d.id \in K /\ e.id \notin K => d.uploaded_at <= e.uploaded_at }

ids_to_keep(u) ==
    { K \in SUBSET {d.id : d \in Owned(u)} :
        /\ Cardinality(K) = IF Cardinality(Owned(u)) < keep_count
                            THEN Cardinality(Owned(u)) ELSE keep_count
        /\ \A d \in Owned(u), e \in Owned(u) :
              d.id \in K /\ e.id \notin K => d.uploaded_at >= e.uploaded_at }

\* cls.objects.filter(user=user).exclude(id__in=ids_to_keep)
CleanupTargetsAnyUser(u, K) == {d \in datasets : d.id \notin K}

CleanupTargets(u, K) == {d \in Owned(u) : d.id \notin K}

\* Lines 47-48: the DELETE of everything but the rows to keep, cascading.
CleanupDelete(p, cfg) ==
    LET u == req[p].user
    IN
    /\ At(p, "cleanup_delete")
    /\ UNCHANGED <<cvars, engine, next_dataset_id, next_equipment_id, now, ties, edits>>
    /\ \E fail \in FaultChoices(cfg.maxf) :
         IF fail
         THEN /\ Reply(p, Response("upload", u, 500, NoId, <<"Error processing file">>))
              /\ req' = req
              /\ faults' = faults + 1
              /\ UNCHANGED <<datasets, equipment, evicted, ok_uploads>>
         ELSE /\ faults' = faults
              /\ \E K \in ids_to_keep(u) :
                   LET gone == CleanupTargets(u, K)
                   IN /\ datasets' = datasets \ gone
                      /\ equipment' = Cascade({d.id : d \in gone})
                      /\ evicted' = [v \in Users |->
                            LET ts == {d.uploaded_at : d \in {x \in gone : x.user = v}}
                                         \cup {evicted[v]}
                            IN CHOOSE t \in ts : \A t2 \in ts : t2 <= t]
              /\ UploadReply(p)

(***************************************************************************)
(* The dataset-scoped views of views.py.  Each reads with the ownership    *)
(* filter first; anything it finds belongs to request.user.                *)
(***************************************************************************)
DatasetIds(maxd) == 1..maxd

\* A lookup that tells a dataset of somebody else from no dataset at all.
NotFoundOrForbidden(op, u, id) ==
    IF \E d \in datasets : d.id = id
    THEN Response(op, u, 403, NoId, <<"Permission denied">>)
    ELSE Response(op, u, 404, NoId, <<"Dataset not found">>)

\* {'error': 'Dataset not found'}: the body names no dataset.
NotFound(op, u, id) == Response(op, u, 404, NoId, <<"Dataset not found">>)

\* The JSON renderer refuses a NaN anywhere in the body.
BodyHasNaN(ds, rows) ==
    \/ \E d \in ds : NaN \in {d.avg_flowrate, d.avg_pressure, d.avg_temperature}
    \/ \E e \in rows : NaN \in {e.flowrate, e.pressure, e.temperature}

\* Lines 241-248: one entry of the equipment_list of the summary body,
\* built from a stored row: a CharField comes back as a string.
SummaryItem(e) ==
    [ id |-> e.id,
      name |-> JsonString(e.name),
      type |-> JsonString(e.equipment_type),
      flowrate |-> JsonNumber(e.flowrate.n),
      pressure |-> JsonNumber(e.pressure.n),
      temperature |-> JsonNumber(e.temperature.n) ]

\* Lines 254-260: the summary of the body, read from the stored dataset.
SummaryStats(d) ==
    [ total_equipment |-> d.total_equipment,
      avg_flowrate |-> d.avg_flowrate,
      avg_pressure |-> d.avg_pressure,
      avg_temperature |-> d.avg_temperature,
      type_distribution |-> d.type_distribution ]

\* Lines 236-267
get_dataset_summary(u, id, conc) ==
    LET ds == GetDataset(id, u)
    IN
    /\ MayStart(conc)
    /\ Answer(IF ds = {} THEN NotFound("summary", u, id)
                ELSE IF BodyHasNaN(ds, EquipmentOf(id))
                     THEN Response("summary", u, 500, NoId, <<"Server Error">>)
                ELSE DataResponse("summary", u, 200, id, ds, EquipmentOf(id)))
    /\ UNCHANGED <<cvars, engine, datasets, equipment, next_dataset_id, next_equipment_id, now,
                   faults, ties, edits, evicted, ok_uploads>>

\* Lines 284-294: the lookup and dataset.delete(), which cascades.
delete_dataset(u, id, conc) ==
    LET ds == GetDataset(id, u)
    IN
    /\ MayStart(conc)
    /\ edits < MaxEdits
    /\ IF ds = {}
       THEN /\ Answer(NotFound("delete", u, id))
            /\ UNCHANGED <<datasets, equipment, ok_uploads, edits>>
       ELSE /\ datasets' = datasets \ ds
            /\ equipment' = Cascade({id})
            /\ ok_uploads' = [ok_uploads EXCEPT ![u] = 0]
            /\ edits' = edits + 1
            /\ Answer(Response("delete", u, 200, NoId, <<"Dataset deleted successfully">>))
    /\ UNCHANGED <<cvars, engine, next_dataset_id, next_equipment_id, now, faults, ties, evicted>>

\* Lines 299-435: the report is built from the dataset and its rows.
generate_pdf_report(u, id, conc) ==
    LET ds == GetDataset(id, u)
    IN
    /\ MayStart(conc)
    /\ Answer(IF ds = {} THEN NotFound("pdf", u, id)
                ELSE DataResponse("pdf", u, 200, id, ds, EquipmentOf(id)))
    /\ UNCHANGED <<cvars, engine, datasets, equipment, next_dataset_id, next_equipment_id, now,
                   faults, ties, edits, evicted, ok_uploads>>

\* The sequences a query ordered by '-uploaded_at' and cut to n rows may
\* return over the rows S: rows with equal uploaded_at come in an order the
\* database picks.
RECURSIVE NewestFirst(_, _)
NewestFirst(S, n) ==
    IF n = 0 \/ S = {} THEN {<<>>}
    ELSE UNION { {<<d>> \o t : t \in NewestFirst(S \ {d}, n - 1)} :
                 d \in {x \in S : \A y \in S : y.uploaded_at <= x.uploaded_at} }

history_limit == 5

\* Lines 274-277: the query is built lazily; 'count': datasets.count() is
\* the first entry of the body to be evaluated and runs SELECT COUNT(*)
\* over the sliced query.
get_upload_history_count(p, u, conc) ==
    LET n == Cardinality(Owned(u))
    IN
    /\ pc[p] = "idle"
    /\ MayStart(conc)
    /\ req' = [req EXCEPT ![p] = [op |-> "history", user |-> u, file |-> "none",
                                  dataset |-> NoId, at |-> 0,
                                  count |-> IF n < history_limit THEN n ELSE history_limit]]
    /\ pc' = [pc EXCEPT ![p] = "history_list"]
    /\ resp' = resp
    /\ UNCHANGED <<cvars, engine, datasets, equipment, next_dataset_id, next_equipment_id, now,
                   faults, ties, edits, evicted, ok_uploads>>

\* Line 278: serializer.data iterates the query, a SELECT of its own, in
\* the order of Meta.ordering.
get_upload_history_list(p) ==
    LET u == req[p].user
    IN
    /\ At(p, "history_list")
    /\ \E page \in NewestFirst(Owned(u), history_limit) :
          Reply(p, IF BodyHasNaN(Range(page), {})
                   THEN Response("history", u, 500, NoId, <<"Server Error">>)
                   ELSE [op |-> "history", user |-> u, status |-> 200, dataset |-> NoId,
                         body |-> <<>>, summary |-> Range(page), rows |-> {},
                         count |-> req[p].count, list |-> page])
    /\ UNCHANGED <<cvars, engine, datasets, equipment, next_dataset_id, next_equipment_id, now,
                   faults, ties, edits, evicted, ok_uploads, req>>

(***************************************************************************)
(* The row operations.  urls.py routes them to views.get_equipment_list,   *)
(* views.add_equipment and views.equipment_detail, whose code is not part  *)
(* of the sources at hand; they follow sections 4.3 to 4.5 of the          *)
(* specification: one transaction that changes the row and rewrites the    *)
(* dataset's aggregates from its complete row set.                         *)
(***************************************************************************)
RowInputs ==
    { [ name |-> "Mixer-1", equipment_type |-> "Mixer", flowrate |-> Val(3000),
        pressure |-> Val(100), temperature |-> Val(2515) ] }

FilterDates == {1, 2}

\* floor(num/den + 1/2), den > 0
RoundHalfUp(num, den) == (2 * num + den) \div (2 * den)

RECURSIVE SumOver(_, _)
SumOver(rows, field) ==
    IF rows = {} THEN 0
    ELSE LET e == CHOOSE x \in rows : TRUE
         IN e[field].n + SumOver(rows \ {e}, field)

\* The mean without the case of no rows: 0/0 is no number.
MeanOverUnguarded(rows, field) ==
    IF rows = {} \/ \E e \in rows : e[field] = NaN THEN NaN
    ELSE Val(RoundHalfUp(SumOver(rows, field), Cardinality(rows)))

MeanOver(rows, field) ==
    IF rows = {} THEN Val(0)
    ELSE IF \E e \in rows : e[field] = NaN THEN NaN
    ELSE Val(RoundHalfUp(SumOver(rows, field), Cardinality(rows)))

\* Aggregator.compute over the rows attached to a dataset
Aggregate(rows) ==
    [ total_equipment |-> Cardinality(rows),
      avg_flowrate |-> MeanOver(rows, "flowrate"),
      avg_pressure |-> MeanOver(rows, "pressure"),
      avg_temperature |-> MeanOver(rows, "temperature"),
      type_distribution |->
          [l \in {e.equipment_type : e \in rows} |->
              Cardinality({e \in rows : e.equipment_type = l})] ]

\* The dataset record with its aggregate fields rewritten from rows.
Recomputed(d, rows) ==
    LET a == Aggregate(rows)
    IN [d EXCEPT !.total_equipment = a.total_equipment,
                 !.avg_flowrate = a.avg_flowrate,
                 !.avg_pressure = a.avg_pressure,
                 !.avg_temperature = a.avg_temperature,
                 !.type_distribution = a.type_distribution]

\* Commit of a row mutation: the new row set of dataset id and the dataset
\* recomputed from it.
CommitRows(op, u, id, rows, status) ==
    LET d == CHOOSE x \in GetDataset(id, u) : TRUE
    IN /\ equipment' = (equipment \ EquipmentOf(id)) \cup rows
       /\ datasets' = (datasets \ {d}) \cup {Recomputed(d, rows)}
       /\ edits' = edits + 1
       /\ Answer(DataResponse(op, u, status, id, {Recomputed(d, rows)}, rows))

add_row(u, id, rec, conc) ==
    LET row == [ id |-> next_equipment_id, dataset |-> id, name |-> rec.name,
                 equipment_type |-> rec.equipment_type, flowrate |-> rec.flowrate,
                 pressure |-> rec.pressure, temperature |-> rec.temperature,
                 recorded_at |-> now ]
    IN
    /\ MayStart(conc)
    /\ edits < MaxEdits
    /\ IF GetDataset(id, u) = {}
       THEN /\ Answer(NotFound("add_row", u, id))
            /\ UNCHANGED <<datasets, equipment, next_equipment_id, edits>>
       ELSE /\ CommitRows("add_row", u, id, EquipmentOf(id) \cup {row}, 201)
            /\ next_equipment_id' = next_equipment_id + 1
    /\ UNCHANGED <<cvars, engine, next_dataset_id, now, faults, ties, evicted, ok_uploads>>

update_row(u, id, row_id, rec, conc) ==
    LET old == {e \in EquipmentOf(id) : e.id = row_id}
        new == {[e EXCEPT !.name = rec.name, !.equipment_type = rec.equipment_type,
                          !.flowrate = rec.flowrate, !.pressure = rec.pressure,
                          !.temperature = rec.temperature] : e \in old}
    IN
    /\ MayStart(conc)
    /\ edits < MaxEdits
    /\ IF GetDataset(id, u) = {} \/ old = {}
       THEN /\ Answer(NotFound("update_row", u, id))
            /\ UNCHANGED <<datasets, equipment, edits>>
       ELSE CommitRows("update_row", u, id, (EquipmentOf(id) \ old) \cup new, 200)
    /\ UNCHANGED <<cvars, engine, next_dataset_id, next_equipment_id, now, faults, ties, evicted,
                   ok_uploads>>

delete_row(u, id, row_id, conc) ==
    LET old == {e \in EquipmentOf(id) : e.id = row_id}
    IN
    /\ MayStart(conc)
    /\ edits < MaxEdits
    /\ IF GetDataset(id, u) = {} \/ old = {}
       THEN /\ Answer(NotFound("delete_row", u, id))
            /\ UNCHANGED <<datasets, equipment, edits>>
       ELSE CommitRows("delete_row", u, id, EquipmentOf(id) \ old, 200)
    /\ UNCHANGED <<cvars, engine, next_dataset_id, next_equipment_id, now, faults, ties, evicted,
                   ok_uploads>>

\* A filter that stores the summary of the subset as the dataset's own.
filter_rows_persisting(u, id, start, end, conc) ==
    LET ds == GetDataset(id, u)
        rows == {e \in EquipmentOf(id) : start <= e.recorded_at /\ e.recorded_at <= end}
    IN
    /\ MayStart(conc)
    /\ Answer(IF ds = {} THEN NotFound("filter", u, id)
                ELSE DataResponse("filter", u, 200, id,
                                  {Recomputed(d, rows) : d \in ds}, rows))
    /\ datasets' = (datasets \ ds) \cup {Recomputed(d, rows) : d \in ds}
    /\ UNCHANGED <<cvars, engine, equipment, next_dataset_id, next_equipment_id, now,
                   faults, ties, edits, evicted, ok_uploads>>

\* A filter that puts the two ends of the range in order first.
filter_rows_swapping(u, id, start, end, conc) ==
    LET ds == GetDataset(id, u)
        lo == IF start <= end THEN start ELSE end
        hi == IF start <= end THEN end ELSE start
        rows == {e \in EquipmentOf(id) : lo <= e.recorded_at /\ e.recorded_at <= hi}
    IN
    /\ MayStart(conc)
    /\ Answer(IF ds = {} THEN NotFound("filter", u, id)
                ELSE DataResponse("filter", u, 200, id,
                                  {Recomputed(d, rows) : d \in ds}, rows))
    /\ UNCHANGED <<cvars, engine, datasets, equipment, next_dataset_id, next_equipment_id, now,
                   faults, ties, edits, evicted, ok_uploads>>

\* filter(owner, dataset_id, start, end): the rows recorded in [start, end]
\* and a summary computed over them; nothing is written.
filter_rows(u, id, start, end, conc) ==
    LET ds == GetDataset(id, u)
        rows == {e \in EquipmentOf(id) : start <= e.recorded_at /\ e.recorded_at <= end}
    IN
    /\ MayStart(conc)
    /\ Answer(IF ds = {} THEN NotFound("filter", u, id)
                ELSE DataResponse("filter", u, 200, id,
                                  {Recomputed(d, rows) : d \in ds}, rows))
    /\ UNCHANGED <<cvars, engine, datasets, equipment, next_dataset_id, next_equipment_id, now,
                   faults, ties, edits, evicted, ok_uploads>>

(***************************************************************************)
(* add_row as the transaction of section 5 of the specification, step by   *)
(* step: it reads the dataset's row set, then inserts the row and writes   *)
(* the aggregates of the rows it read plus its own.  The store serialises  *)
(* the mutations of one dataset: no second transaction on a dataset starts *)
(* while one is open.                                                      *)
(***************************************************************************)
\* A store that lets transactions on the same dataset overlap.
NoSerialization(p, id) == TRUE

Serializes(p, id) ==
    \A q \in Procs \ {p} : ~(pc[q] = "add_write" /\ req[q].dataset = id)

add_row_read(p, u, id, rec) ==
    /\ pc[p] = "idle"
    /\ MayStart(TRUE)
    /\ edits < MaxAdds
    /\ UNCHANGED <<cvars, engine, datasets, equipment, next_dataset_id, next_equipment_id, now,
                   faults, ties, edits, evicted, ok_uploads>>
    /\ IF GetDataset(id, u) = {}
       THEN /\ Reply(p, NotFound("add_row", u, id))
            /\ req' = [req EXCEPT ![p] = [op |-> "add_row", user |-> u, file |-> "none",
                                          dataset |-> NoId, at |-> 0]]
       ELSE /\ Serializes(p, id)
            /\ req' = [req EXCEPT ![p] = [op |-> "add_row", user |-> u, file |-> "none",
                                          dataset |-> id, at |-> now, rec |-> rec,
                                          seen |-> EquipmentOf(id)]]
            /\ pc' = [pc EXCEPT ![p] = "add_write"]
            /\ resp' = resp

add_row_write(p) ==
    LET u == req[p].user
        id == req[p].dataset
        rec == req[p].rec
        row == [ id |-> next_equipment_id, dataset |-> id, name |-> rec.name,
                 equipment_type |-> rec.equipment_type, flowrate |-> rec.flowrate,
                 pressure |-> rec.pressure, temperature |-> rec.temperature,
                 recorded_at |-> now ]
        rows == req[p].seen \cup {row}
        d == CHOOSE x \in GetDataset(id, u) : TRUE
    IN
    /\ At(p, "add_write")
    /\ equipment' = equipment \cup {row}
    /\ next_equipment_id' = next_equipment_id + 1
    /\ datasets' = (datasets \ {d}) \cup {Recomputed(d, rows)}
    /\ edits' = edits + 1
    /\ Reply(p, DataResponse("add_row", u, 201, id, {Recomputed(d, rows)}, rows))
    /\ UNCHANGED <<cvars, engine, next_dataset_id, now, faults, ties, evicted, ok_uploads, req>>

\* The client receives the response; the locals of the handlers that have
\* returned are gone.
Deliver ==
    /\ resp # NoResp
    /\ resp' = NoResp
    /\ req' = [p \in Procs |-> IF pc[p] = "idle" THEN NoReq ELSE req[p]]
    /\ UNCHANGED <<cvars, engine, datasets, equipment, next_dataset_id, next_equipment_id, now,
                   pc, faults, ties, edits, evicted, ok_uploads>>

(***************************************************************************)
(* Authentication: views.py 27-96 over the User and Token tables.  Every   *)
(* request passes DRF's TokenAuthentication first (settings.py 109-117).   *)
(***************************************************************************)
Keys == 0..MaxKeys

Passwords == {"", "right", "wrong"}

\* TokenAuthentication: the user whose token has key k, "" if no token has.
TokenUser(k) ==
    IF k # NoKey /\ \E u \in Users : authtoken_token[u] = k
    THEN CHOOSE u \in Users : authtoken_token[u] = k
    ELSE ""

\* An Authorization header with a key no token has: the request is refused
\* with 401 before the view runs, whatever the view's permission classes.
InvalidToken(k) == k # NoKey /\ TokenUser(k) = ""

AuthResponse(op, u, status, key) ==
    [op |-> op, user |-> u, status |-> status, dataset |-> NoId, body |-> <<>>,
     summary |-> {}, rows |-> {}, token |-> key]

\* What the authentication views leave alone.
data_vars == <<engine, datasets, equipment, next_dataset_id, next_equipment_id, now,
               pc, req, ties, edits, evicted, ok_uploads>>

client_vars == <<api, main_window, sent>>

\* Token.objects.get_or_create(user=user): the key of the user's token,
\* a fresh one if the user has none.
get_or_create(u) == IF authtoken_token[u] # NoKey THEN authtoken_token[u] ELSE next_key

\* Lines 29-40.  valid: the serializer accepts the data apart from the
\* name, which it refuses if it is taken.
register_user(k, u, valid) ==
    /\ Quiet
    /\ UNCHANGED <<data_vars, client_vars, faults, revoked>>
    /\ IF InvalidToken(k)
       THEN /\ resp' = AuthResponse("register", "", 401, NoKey)
            /\ UNCHANGED <<auth_user, authtoken_token, next_key>>
       ELSE IF ~valid \/ u \in auth_user
       THEN /\ resp' = AuthResponse("register", "", 400, NoKey)
            /\ UNCHANGED <<auth_user, authtoken_token, next_key>>
       ELSE /\ next_key <= MaxKeys
            /\ auth_user' = auth_user \cup {u}
            /\ authtoken_token' = [authtoken_token EXCEPT ![u] = next_key]
            /\ next_key' = next_key + 1
            /\ resp' = AuthResponse("register", u, 201, next_key)

\* Lines 45-78
login_user(k, u, password) ==
    LET Refuse(status) ==
            /\ resp' = AuthResponse("login", "", status, NoKey)
            /\ UNCHANGED <<authtoken_token, next_key, revoked>>
    IN
    /\ Quiet
    /\ UNCHANGED <<data_vars, client_vars, faults, auth_user>>
    /\ IF InvalidToken(k) THEN Refuse(401)
       ELSE IF password = "" THEN Refuse(400)
       ELSE IF u \notin auth_user THEN Refuse(404)
       ELSE IF password # "right" THEN Refuse(401)
       ELSE /\ authtoken_token[u] = NoKey => next_key <= MaxKeys
            /\ authtoken_token' = [authtoken_token EXCEPT ![u] = get_or_create(u)]
            /\ next_key' = IF authtoken_token[u] = NoKey THEN next_key + 1 ELSE next_key
            /\ revoked' = {r \in revoked : r.user # u}
            /\ resp' = AuthResponse("login", u, 200, get_or_create(u))

\* A logout that leaves the token in the table.
KeepToken(u) == authtoken_token

\* request.user.auth_token.delete()
DeleteToken(u) == [authtoken_token EXCEPT ![u] = NoKey]

\* Lines 83-89, behind IsAuthenticated: 401 without a valid token, 500 if
\* the delete raises.
logout_user(k) ==
    LET u == TokenUser(k)
    IN
    /\ Quiet
    /\ UNCHANGED <<data_vars, client_vars, auth_user, next_key>>
    /\ IF u = ""
       THEN /\ resp' = AuthResponse("logout", "", 401, NoKey)
            /\ UNCHANGED <<authtoken_token, revoked, faults>>
       ELSE \E fail \in FaultChoices(MaxFaults) :
              IF fail
              THEN /\ resp' = AuthResponse("logout", u, 500, NoKey)
                   /\ faults' = faults + 1
                   /\ UNCHANGED <<authtoken_token, revoked>>
              ELSE /\ authtoken_token' = DeleteToken(u)
                   /\ revoked' = revoked \cup {[user |-> u, key |-> k]}
                   /\ faults' = faults
                   /\ resp' = AuthResponse("logout", u, 200, NoKey)

\* Lines 94-96, behind IsAuthenticated
get_current_user(k) ==
    /\ Quiet
    /\ UNCHANGED <<data_vars, client_vars, faults, auth_user, authtoken_token, next_key,
                   revoked>>
    /\ resp' = IF TokenUser(k) = "" THEN AuthResponse("current_user", "", 401, NoKey)
               ELSE AuthResponse("current_user", TokenUser(k), 200, NoKey)

(***************************************************************************)
(* The desktop client's APIService (api_service.py).  A method sends its   *)
(* request and blocks; it goes on when the answer is there.                *)
(***************************************************************************)
\* _get_headers: the key of the Authorization header, NoKey if the
\* request carries none.
get_headers == IF api.token # NoKey THEN api.token ELSE NoKey

\* _make_request
make_request(op, u, password, id, row) ==
    /\ ~sent.pending /\ Quiet /\ AllIdle
    /\ sent' = [op |-> op, auth |-> get_headers, user |-> u, password |-> password,
                dataset |-> id, row |-> row, pending |-> TRUE]

\* The server may take up the client's request op.
Pending(op) == sent.pending /\ sent.op = op /\ Quiet /\ AllIdle

\* The answer to the client's request op is there.
Answered(op) == sent.pending /\ sent.op = op /\ resp # NoResp

\* The answer is taken off the wire.
Receive ==
    /\ resp' = NoResp
    /\ req' = [p \in Procs |-> IF pc[p] = "idle" THEN NoReq ELSE req[p]]
    /\ sent' = [sent EXCEPT !.pending = FALSE]

server_vars == <<engine, datasets, equipment, next_dataset_id, next_equipment_id, now,
                 pc, faults, ties, edits, evicted, ok_uploads, auth_user, authtoken_token,
                 next_key, revoked>>

\* Lines 54-59 and 69-80: the requests of login and register.
APIService_send_auth(op, u, password) ==
    /\ make_request(op, u, password, NoId, NoId)
    /\ UNCHANGED <<server_vars, req, resp, api, main_window>>

\* Lines 61-66 and 82-87: the token of the answer is kept on success.
APIService_login_returns ==
    /\ Answered("login")
    /\ api' = [api EXCEPT !.token = IF resp.status = 200 THEN resp.token ELSE @]
    /\ Receive
    /\ UNCHANGED <<server_vars, main_window>>

APIService_register_returns ==
    /\ Answered("register")
    /\ api' = [api EXCEPT !.token = IF resp.status = 201 THEN resp.token ELSE @]
    /\ Receive
    /\ UNCHANGED <<server_vars, main_window>>

\* Line 91 and line 97: the requests of logout and get_user.
APIService_send(op) ==
    /\ make_request(op, "", "", NoId, NoId)
    /\ UNCHANGED <<server_vars, req, resp, api, main_window>>

\* A logout that forgets the token only when the server has agreed.
cleared_on_success(status) == IF status = 200 THEN NoKey ELSE api.token

\* Line 92: self.token = None
cleared(status) == NoKey

\* Lines 91-93
APIService_logout_returns ==
    /\ Answered("logout")
    /\ api' = [api EXCEPT !.token = cleared(resp.status)]
    /\ Receive
    /\ UNCHANGED <<server_vars, main_window>>

\* Line 91: session.request raises (no connection); line 92 is not reached.
APIService_logout_raises ==
    /\ Pending("logout")
    /\ sent' = [sent EXCEPT !.pending = FALSE]
    /\ UNCHANGED <<server_vars, req, resp, api, main_window>>

\* Lines 97-102
APIService_get_user_returns ==
    /\ Answered("current_user")
    /\ Receive
    /\ UNCHANGED <<server_vars, api, main_window>>

\* Lines 167-169
is_authenticated == api.token # NoKey

(***************************************************************************)
(* The desktop client's MainWindow (main.py).  A handler runs to its end   *)
(* before the next event is taken: at names the handler that is running,   *)
(* "idle" when the event loop waits.  data_table holds the ids of the rows *)
(* the table shows, each with an edit and a delete button.  The dialogs    *)
(* are modal; a click that ends in a warning box changes nothing.          *)
(***************************************************************************)
\* The requests whose URL carries the id of a dataset the user has selected.
ScopedOps == {"pdf", "filter", "add_row", "update_row", "delete_row"}

\* status_code in [200, 201] and its like: the methods of APIService report
\* success for the 2xx codes their endpoint answers with.
success(status) == status \in {200, 201, 204}

\* Lines 1287-1383: the table is rebuilt from the equipment_list of
\* current_data, one row with its buttons for each entry; an empty list
\* leaves the table as it was (line 1309).
update_data_display(ids) ==
    [main_window EXCEPT !.current_data = TRUE, !.data_table = IF ids = {} THEN @ ELSE ids]

\* A handler is entered from the event loop and calls a method of api.
Calls(handler, op, id, row) ==
    /\ main_window.at = "idle"
    /\ make_request(op, "", "", id, row)
    /\ UNCHANGED <<server_vars, req, resp, api>>

\* The handler returns to the event loop.
Returns(w) == [w EXCEPT !.at = "idle", !.item = NoId]

\* Lines 1264-1271
upload_file ==
    /\ Calls("upload_file", "upload", NoId, NoId)
    /\ main_window' = [main_window EXCEPT !.at = "upload_file"]

\* Lines 1276-1285: on success the data of the answer is shown, with the
\* row ids of its equipment_list, and load_history is called.
upload_file_returns ==
    /\ Answered("upload")
    /\ Receive
    /\ main_window' =
          IF success(resp.status)
          THEN [update_data_display({resp.equipment_list[i].id :
                                        i \in DOMAIN resp.equipment_list})
                  EXCEPT !.selected_dataset_id = resp.dataset]
          ELSE Returns(main_window)
    /\ UNCHANGED <<server_vars, api>>

\* Line 1508: api.get_history(), at the end of __init__ (line 484), from
\* the refresh button, and inside upload_file and delete_selected_dataset.
load_history ==
    /\ main_window.at \in {"__init__", "idle", "upload_file", "delete_selected_dataset"}
    /\ make_request("history", "", "", NoId, NoId)
    /\ main_window' = [main_window EXCEPT !.at = IF @ = "idle" THEN "load_history" ELSE @]
    /\ UNCHANGED <<server_vars, req, resp, api>>

\* Lines 1510-1524: the list is cleared and filled from the answer.  Lines
\* 1562-1564: delete_selected_dataset goes on after load_history and
\* forgets the selection if it was the deleted dataset; the table is not
\* rebuilt.
load_history_returns ==
    LET w == main_window
        listed == IF resp.status = 200
                  THEN [i \in DOMAIN resp.list |-> resp.list[i].id] ELSE <<>>
        forget == w.at = "delete_selected_dataset" /\ w.selected_dataset_id = w.item
    IN
    /\ Answered("history")
    /\ Receive
    /\ main_window' = Returns([w EXCEPT !.history_list = listed,
                                        !.current_data = IF forget THEN FALSE ELSE @,
                                        !.selected_dataset_id = IF forget THEN NoId ELSE @])
    /\ UNCHANGED <<server_vars, api>>

\* Lines 1526-1531: a double click on an item of the history list.
load_dataset_from_history ==
    \E i \in DOMAIN main_window.history_list :
       /\ Calls("load_dataset_from_history", "summary", main_window.history_list[i], NoId)
       /\ main_window' = [main_window EXCEPT !.at = "load_dataset_from_history",
                                             !.item = main_window.history_list[i]]

\* Lines 1533-1540
load_dataset_from_history_returns ==
    /\ Answered("summary") /\ main_window.at = "load_dataset_from_history"
    /\ Receive
    /\ main_window' =
          IF success(resp.status)
          THEN Returns([update_data_display({e.id : e \in resp.rows})
                          EXCEPT !.selected_dataset_id = main_window.item])
          ELSE Returns(main_window)
    /\ UNCHANGED <<server_vars, api>>

\* Lines 1542-1558: the delete button of the history tab, confirmed.
delete_selected_dataset ==
    \E i \in DOMAIN main_window.history_list :
       /\ Calls("delete_selected_dataset", "delete", main_window.history_list[i], NoId)
       /\ main_window' = [main_window EXCEPT !.at = "delete_selected_dataset",
                                             !.item = main_window.history_list[i]]

\* Lines 1560-1567: on success load_history is called next.
delete_selected_dataset_returns ==
    /\ Answered("delete")
    /\ Receive
    /\ main_window' = IF success(resp.status) THEN main_window ELSE Returns(main_window)
    /\ UNCHANGED <<server_vars, api>>

\* Lines 1569-1582, 1610-1619 and 1660-1762: download_pdf, apply_date_filter
\* and show_add_equipment_dialog return at once if no dataset is selected,
\* and else call api with selected_dataset_id.
guarded(handler, op) ==
    /\ main_window.selected_dataset_id # NoId
    /\ Calls(handler, op, main_window.selected_dataset_id, NoId)
    /\ main_window' = [main_window EXCEPT !.at = handler]

\* Lines 1584-1587
download_pdf_returns ==
    /\ Answered("pdf")
    /\ Receive
    /\ main_window' = Returns(main_window)
    /\ UNCHANGED <<server_vars, api>>

\* Lines 1621-1628: the rows of the answer replace those of current_data.
apply_date_filter_returns ==
    /\ Answered("filter")
    /\ Receive
    /\ main_window' = IF success(resp.status)
                      THEN Returns(update_data_display({e.id : e \in resp.rows}))
                      ELSE Returns(main_window)
    /\ UNCHANGED <<server_vars, api>>

\* Lines 1778-1871: the edit button of a row opens the dialog, whose save
\* button calls api.update_equipment(self.selected_dataset_id, ...).
edit_equipment(equipment_id) ==
    /\ equipment_id \in main_window.data_table
    /\ Calls("edit_equipment", "update_row", main_window.selected_dataset_id, equipment_id)
    /\ main_window' = [main_window EXCEPT !.at = "edit_equipment"]

\* Lines 1886-1896: the delete button of a row, confirmed, calls
\* api.delete_equipment(self.selected_dataset_id, equipment_id).
delete_equipment(equipment_id) ==
    /\ equipment_id \in main_window.data_table
    /\ Calls("delete_equipment", "delete_row", main_window.selected_dataset_id, equipment_id)
    /\ main_window' = [main_window EXCEPT !.at = "delete_equipment"]

\* Lines 1764-1770, 1873-1878 and 1898-1902: after an add, an update or a
\* delete of a row that succeeded, clear_date_filter is called.
row_request_returns ==
    /\ \E op \in {"add_row", "update_row", "delete_row"} : Answered(op)
    /\ Receive
    /\ main_window' = IF success(resp.status)
                      THEN [main_window EXCEPT !.at = "clear_date_filter"]
                      ELSE Returns(main_window)
    /\ UNCHANGED <<server_vars, api>>

\* Lines 1630-1635: from its button or from a row handler; it returns at
\* once if no dataset is selected and else reloads the dataset.
clear_date_filter ==
    /\ ~sent.pending /\ Quiet /\ AllIdle
    /\ \/ main_window.at = "clear_date_filter"
       \/ main_window.at = "idle" /\ main_window.selected_dataset_id # NoId
    /\ IF main_window.selected_dataset_id = NoId
       THEN /\ main_window' = Returns(main_window)
            /\ sent' = sent
       ELSE /\ make_request("summary", "", "", main_window.selected_dataset_id, NoId)
            /\ main_window' = [main_window EXCEPT !.at = "clear_date_filter"]
    /\ UNCHANGED <<server_vars, req, resp, api>>

\* Lines 1637-1640
clear_date_filter_returns ==
    /\ Answered("summary") /\ main_window.at = "clear_date_filter"
    /\ Receive
    /\ main_window' = IF success(resp.status)
                      THEN Returns(update_data_display({e.id : e \in resp.rows}))
                      ELSE Returns(main_window)
    /\ UNCHANGED <<server_vars, api>>

\* urls.py 14-22: the routes of a dataset take <int:dataset_id>; a path
\* with None in that place matches no route and gets Django's 404.
no_route ==
    /\ sent.dataset = NoId
    /\ Answer(Response(sent.op, "", 404, NoId, <<"Not Found">>))
    /\ UNCHANGED <<cvars, engine, datasets, equipment, next_dataset_id, next_equipment_id, now,
                   faults, ties, edits, evicted, ok_uploads>>

(***************************************************************************)
(* Specifications.                                                         *)
(***************************************************************************)
RowIds == {e.id : e \in equipment} \cup {next_equipment_id}

\* upload_csv up to the cleanup's count, which finds nothing to delete
\* while a user has no more than keep_count datasets.
UploadSteps(p, cfg) ==
    \/ \E u \in cfg.serves[p], f \in cfg.files : UploadBegin(p, u, f, cfg)
    \/ UploadSave(p, cfg)
    \/ UploadBulk(p, cfg)
    \/ CleanupCount(p, cfg)

Upload(p, cfg) ==
    \/ UploadSteps(p, cfg)
    \/ CleanupDelete(p, cfg)

\* Every view, handlers interleaving between statements.
Views(maxd, conc) ==
    \E u \in Users, id \in DatasetIds(maxd) :
        \/ get_dataset_summary(u, id, conc)
        \/ delete_dataset(u, id, conc)
        \/ generate_pdf_report(u, id, conc)
        \/ \E rec \in RowInputs : add_row(u, id, rec, conc)
        \/ \E row_id \in RowIds, rec \in RowInputs : update_row(u, id, row_id, rec, conc)
        \/ \E row_id \in RowIds : delete_row(u, id, row_id, conc)
        \/ \E start \in FilterDates, end \in FilterDates :
              filter_rows(u, id, start, end, conc)

\* Which requests a specification draws: the files uploaded, the users each
\* worker serves, whether handlers interleave, and the budgets.
AnyUser == [p \in Procs |-> Users]

OwnWorker == [p \in Procs |-> IF p = 1 THEN {"alice"} ELSE {"bob"}]

SpecCfg ==
    [files |-> Files, workers |-> {1}, serves |-> AnyUser, maxd |-> MaxDatasets, conc |-> TRUE,
     maxf |-> MaxFaults, maxt |-> 0]

Next ==
    \/ \E p \in SpecCfg.workers : UploadSteps(p, SpecCfg)
    \/ Views(MaxDatasets, TRUE)
    \/ Deliver

Spec == Init /\ [][Next]_vars

\* Every file, one request at a time.
SeqCfg ==
    [files |-> Files, workers |-> {1}, serves |-> AnyUser, maxd |-> MaxDatasets, conc |-> FALSE,
     maxf |-> MaxFaults, maxt |-> 0]

\* Uploads of every file and deletions, one request at a time.
NextIngest ==
    \/ \E p \in SeqCfg.workers : UploadSteps(p, SeqCfg)
    \/ \E u \in Users, id \in DatasetIds(MaxDatasets) : delete_dataset(u, id, FALSE)
    \/ Deliver

SpecIngest == Init /\ [][NextIngest]_vars

\* Uploads that store rows and row mutations, one request at a time.
EditFiles == {"one_row", "two_rows"}

EditCfg ==
    [files |-> EditFiles, workers |-> {1}, serves |-> OwnWorker, maxd |-> MaxDatasets, conc |-> FALSE,
     maxf |-> MaxFaults, maxt |-> 0]

NextEdit ==
    \/ \E p \in EditCfg.workers : UploadSteps(p, EditCfg)
    \/ \E u \in Users, id \in DatasetIds(MaxDatasets) :
          \/ \E rec \in RowInputs : add_row(u, id, rec, FALSE)
          \/ \E row_id \in RowIds, rec \in RowInputs : update_row(u, id, row_id, rec, FALSE)
          \/ \E row_id \in RowIds : delete_row(u, id, row_id, FALSE)
    \/ Deliver

SpecEdit == Init /\ [][NextEdit]_vars

\* Every view interleaving with the statements of one owner's uploads.
ViewsCfg ==
    [files |-> {"one_row"}, workers |-> {1}, serves |-> OwnWorker, maxd |-> MaxDatasets, conc |-> TRUE,
     maxf |-> 0, maxt |-> 0]

NextViews ==
    \/ \E p \in ViewsCfg.workers : UploadSteps(p, ViewsCfg)
    \/ Views(MaxDatasets, TRUE)
    \/ Deliver

SpecViews == Init /\ [][NextViews]_vars

\* Uploads of the example files and deletions, one request at a time.
ExamplesCfg ==
    [files |-> ExampleFiles, workers |-> {1}, serves |-> OwnWorker, maxd |-> MaxDatasets,
     conc |-> FALSE, maxf |-> MaxFaults, maxt |-> 0]

NextExamples ==
    \/ \E p \in ExamplesCfg.workers : UploadSteps(p, ExamplesCfg)
    \/ \E u \in Users, id \in DatasetIds(MaxDatasets) : delete_dataset(u, id, FALSE)
    \/ Deliver

SpecExamples == Init /\ [][NextExamples]_vars

\* Uploads of the files with several names per field and deletions, one
\* request at a time.
PriorityCfg ==
    [files |-> PriorityFiles, workers |-> {1}, serves |-> OwnWorker, maxd |-> MaxDatasets,
     conc |-> FALSE, maxf |-> MaxFaults, maxt |-> 0]

NextPriority ==
    \/ \E p \in PriorityCfg.workers : UploadSteps(p, PriorityCfg)
    \/ \E u \in Users, id \in DatasetIds(MaxDatasets) : delete_dataset(u, id, FALSE)
    \/ Deliver

SpecPriority == Init /\ [][NextPriority]_vars

\* Uploads and reads of what they stored, one request at a time.
RoundTripCfg ==
    [files |-> RoundTripFiles, workers |-> {1}, serves |-> OwnWorker, maxd |-> MaxDatasets,
     conc |-> FALSE, maxf |-> MaxFaults, maxt |-> 0]

NextRoundTrip ==
    \/ \E p \in RoundTripCfg.workers : UploadSteps(p, RoundTripCfg)
    \/ \E u \in Users, id \in DatasetIds(MaxDatasets) : get_dataset_summary(u, id, FALSE)
    \/ Deliver

SpecRoundTrip == Init /\ [][NextRoundTrip]_vars

\* Uploads and deletions, one request at a time, enough of them for the
\* cleanup to delete.
RetentionCfg ==
    [files |-> RetentionFiles, workers |-> {1}, serves |-> AnyUser, maxd |-> MaxRetained, conc |-> FALSE,
     maxf |-> 0, maxt |-> MaxTies]

NextRetention ==
    \/ \E p \in RetentionCfg.workers : Upload(p, RetentionCfg)
    \/ \E u \in Users, id \in DatasetIds(MaxRetained) : delete_dataset(u, id, FALSE)
    \/ Deliver

\* Uploads and deletions of two users, each with one upload in flight at a
\* time, the handlers interleaving between statements.
OwnersCfg ==
    [files |-> {"one_row"}, workers |-> Procs, serves |-> OwnWorker, maxd |-> MaxRetained, conc |-> TRUE,
     maxf |-> 0, maxt |-> 0]

NextOwners ==
    \/ \E p \in OwnersCfg.workers : Upload(p, OwnersCfg)
    \/ \E u \in Users, id \in DatasetIds(MaxRetained) : delete_dataset(u, id, TRUE)
    \/ Deliver

\* One upload at a time by either user, with deletions and history
\* requests of a second worker running between its statements.
HistoryCfg ==
    [files |-> {"one_row"}, workers |-> {1}, serves |-> AnyUser, maxd |-> MaxRetained, conc |-> TRUE,
     maxf |-> 0, maxt |-> 0]

NextHistory ==
    \/ \E p \in HistoryCfg.workers : Upload(p, HistoryCfg)
    \/ \E u \in Users : get_upload_history_count(2, u, TRUE)
    \/ get_upload_history_list(2)
    \/ \E u \in Users, id \in DatasetIds(MaxRetained) : delete_dataset(u, id, TRUE)
    \/ Deliver

\* The desktop client and other holders of tokens at the authentication
\* endpoints.  At the start alice is registered and nobody is logged in.
InitAuth ==
    /\ auth_user = {"alice"}
    /\ authtoken_token = [u \in Users |-> NoKey]
    /\ next_key = 1
    /\ revoked = {}
    /\ api = [token |-> NoKey]
    /\ main_window = NewWindow
    /\ sent = NoRequest
    /\ engine \in Engines
    /\ datasets = {}
    /\ equipment = {}
    /\ next_dataset_id = 1
    /\ next_equipment_id = 1
    /\ now = 0
    /\ pc = [p \in Procs |-> "idle"]
    /\ req = [p \in Procs |-> NoReq]
    /\ resp = NoResp
    /\ faults = 0
    /\ ties = 0
    /\ edits = 0
    /\ evicted = [u \in Users |-> 0]
    /\ ok_uploads = [u \in Users |-> 0]

NextAuth ==
    \/ \E u \in Users, password \in {"right", "wrong"} :
          APIService_send_auth("login", u, password)
    \/ \E u \in Users : APIService_send_auth("register", u, "right")
    \/ \E op \in {"logout", "current_user"} : APIService_send(op)
    \/ Pending("login") /\ login_user(sent.auth, sent.user, sent.password)
    \/ Pending("register") /\ register_user(sent.auth, sent.user, TRUE)
    \/ Pending("logout") /\ logout_user(sent.auth)
    \/ Pending("current_user") /\ get_current_user(sent.auth)
    \/ APIService_login_returns
    \/ APIService_register_returns
    \/ APIService_logout_returns
    \/ APIService_logout_raises
    \/ APIService_get_user_returns
    \/ \E k \in Keys, u \in Users, password \in Passwords :
          ~sent.pending /\ login_user(k, u, password)
    \/ \E k \in Keys : ~sent.pending /\ logout_user(k)
    \/ \E k \in Keys : ~sent.pending /\ get_current_user(k)
    \/ ~sent.pending /\ Deliver

SpecAuth == InitAuth /\ [][NextAuth]_vars

\* The desktop client of alice, logged in, and the views its handlers
\* reach, one request at a time.  The window has just been built.
InitClient ==
    /\ auth_user = Users
    /\ authtoken_token = [u \in Users |-> IF u = "alice" THEN 1 ELSE 2]
    /\ next_key = 3
    /\ revoked = {}
    /\ api = [token |-> 1]
    /\ main_window = [NewWindow EXCEPT !.at = "__init__"]
    /\ sent = NoRequest
    /\ engine \in Engines
    /\ datasets = {}
    /\ equipment = {}
    /\ next_dataset_id = 1
    /\ next_equipment_id = 1
    /\ now = 0
    /\ pc = [p \in Procs |-> "idle"]
    /\ req = [p \in Procs |-> NoReq]
    /\ resp = NoResp
    /\ faults = 0
    /\ ties = 0
    /\ edits = 0
    /\ evicted = [u \in Users |-> 0]
    /\ ok_uploads = [u \in Users |-> 0]

ClientCfg ==
    [files |-> EditFiles, workers |-> {1}, serves |-> OwnWorker, maxd |-> MaxDatasets,
     conc |-> FALSE, maxf |-> MaxFaults, maxt |-> 0]

\* What the server does with the request of the client that is on its way,
\* for the user of its token.  The file, the form and the dates the user
\* chose travel with the request.
Serve(u) ==
    \/ Pending("upload") /\ \E f \in ClientCfg.files : UploadBegin(1, u, f, ClientCfg)
    \/ UploadSave(1, ClientCfg)
    \/ UploadBulk(1, ClientCfg)
    \/ CleanupCount(1, ClientCfg)
    \/ Pending("history") /\ get_upload_history_count(1, u, FALSE)
    \/ get_upload_history_list(1)
    \/ /\ \E op \in ScopedOps \cup {"summary", "delete"} : Pending(op)
       /\ IF sent.dataset = NoId THEN no_route
          ELSE \/ sent.op = "summary" /\ get_dataset_summary(u, sent.dataset, FALSE)
               \/ sent.op = "delete" /\ delete_dataset(u, sent.dataset, FALSE)
               \/ sent.op = "pdf" /\ generate_pdf_report(u, sent.dataset, FALSE)
               \/ sent.op = "filter" /\ \E start \in FilterDates, end \in FilterDates :
                     filter_rows(u, sent.dataset, start, end, FALSE)
               \/ sent.op = "add_row" /\ \E rec \in RowInputs :
                     add_row(u, sent.dataset, rec, FALSE)
               \/ sent.op = "update_row" /\ \E rec \in RowInputs :
                     update_row(u, sent.dataset, sent.row, rec, FALSE)
               \/ sent.op = "delete_row" /\ delete_row(u, sent.dataset, sent.row, FALSE)

NextClient ==
    \/ upload_file
    \/ upload_file_returns
    \/ load_history
    \/ load_history_returns
    \/ load_dataset_from_history
    \/ load_dataset_from_history_returns
    \/ delete_selected_dataset
    \/ delete_selected_dataset_returns
    \/ guarded("download_pdf", "pdf")
    \/ download_pdf_returns
    \/ guarded("apply_date_filter", "filter")
    \/ apply_date_filter_returns
    \/ guarded("show_add_equipment_dialog", "add_row")
    \/ \E equipment_id \in main_window.data_table : edit_equipment(equipment_id)
    \/ \E equipment_id \in main_window.data_table : delete_equipment(equipment_id)
    \/ row_request_returns
    \/ clear_date_filter
    \/ clear_date_filter_returns
    \/ Serve(TokenUser(sent.auth))

SpecClient == InitClient /\ [][NextClient]_vars

\* The state alice's first Warm uploads of one_row leave behind when they
\* run one after the other on an empty store: datasets 1..Warm with one row
\* each, an hour of the clock apart.
Warm == 4

WarmDataset(i) ==
    [NewDataset(i, "alice", i, Stats(FileTable["one_row"]))
        EXCEPT !.type_distribution = Stats(FileTable["one_row"]).type_distribution]

WarmRow(i) ==
    LET o == equipment_objects(FileTable["one_row"])[1]
    IN [ id |-> i, dataset |-> i, name |-> o.name, equipment_type |-> o.equipment_type,
         flowrate |-> o.flowrate, pressure |-> o.pressure, temperature |-> o.temperature,
         recorded_at |-> i ]

InitRetention ==
    /\ Accounts
    /\ engine \in Engines
    /\ datasets = {WarmDataset(i) : i \in 1..Warm}
    /\ equipment = {WarmRow(i) : i \in 1..Warm}
    /\ next_dataset_id = Warm + 1
    /\ next_equipment_id = Warm + 1
    /\ now = Warm
    /\ pc = [p \in Procs |-> "idle"]
    /\ req = [p \in Procs |-> NoReq]
    /\ resp = NoResp
    /\ faults = 0
    /\ ties = 0
    /\ edits = 0
    /\ evicted = [u \in Users |-> 0]
    /\ ok_uploads = [u \in Users |-> IF u = "alice" THEN Warm ELSE 0]

SpecRetention == InitRetention /\ [][NextRetention]_vars

SpecOwners == InitRetention /\ [][NextOwners]_vars

SpecHistory == InitRetention /\ [][NextHistory]_vars

\* Two workers adding rows to the datasets of the warm store, their
\* transactions interleaving, and summaries read in between.
NextAdds ==
    \/ \E p \in Procs, u \in Users, id \in DatasetIds(MaxRetained), rec \in RowInputs :
          add_row_read(p, u, id, rec)
    \/ \E p \in Procs : add_row_write(p)
    \/ \E u \in Users, id \in DatasetIds(MaxRetained) : get_dataset_summary(u, id, TRUE)
    \/ Deliver

SpecAdds == InitRetention /\ [][NextAdds]_vars

\* The same four uploads with the first two stamped in the same tick of the
\* clock: datasets 1 and 2 share their uploaded_at.
TiedAt(i) == IF i = 1 THEN 1 ELSE i - 1

InitTied ==
    /\ Accounts
    /\ engine \in Engines
    /\ datasets = {[WarmDataset(i) EXCEPT !.uploaded_at = TiedAt(i)] : i \in 1..Warm}
    /\ equipment = {[WarmRow(i) EXCEPT !.recorded_at = TiedAt(i)] : i \in 1..Warm}
    /\ next_dataset_id = Warm + 1
    /\ next_equipment_id = Warm + 1
    /\ now = Warm - 1
    /\ pc = [p \in Procs |-> "idle"]
    /\ req = [p \in Procs |-> NoReq]
    /\ resp = NoResp
    /\ faults = 0
    /\ ties = 1
    /\ edits = 0
    /\ evicted = [u \in Users |-> 0]
    /\ ok_uploads = [u \in Users |-> IF u = "alice" THEN Warm ELSE 0]

SpecTied == InitTied /\ [][NextRetention]_vars

(***************************************************************************)
(* Properties.                                                             *)
(***************************************************************************)
\* The worker whose upload_csv has just returned the response in resp.
Replied(p) == resp # NoResp /\ resp.op = "upload" /\ pc[p] = "idle" /\ req[p].op = "upload"

\* C1 (Retention): once an upload has completed successfully and its owner
\* has more than keep_count successful uploads with no deletion of theirs in
\* between, the owner has exactly keep_count datasets, and none of them is
\* older than any dataset the cleanup removed.
C1_Retention ==
    \A p \in Procs :
        (Replied(p) /\ resp.status = 201 /\ ok_uploads[req[p].user] > keep_count)
        => LET u == req[p].user
           IN /\ Cardinality(Owned(u)) = keep_count
              /\ \A d \in Owned(u) : d.uploaded_at >= evicted[u]

C1_Witness ==
    \E p \in Procs :
        /\ Replied(p) /\ resp.status = 201
        /\ ok_uploads[req[p].user] = keep_count + 2
        /\ evicted[req[p].user] > 1

\* C2 (Ownership isolation): a dataset-scoped operation on a dataset owned
\* by somebody else answers 404 Dataset not found, hands out no data of the
\* dataset and leaves the store as it was.
Scoped(u, id) ==
    \/ get_dataset_summary(u, id, TRUE)
    \/ delete_dataset(u, id, TRUE)
    \/ generate_pdf_report(u, id, TRUE)
    \/ \E rec \in RowInputs : add_row(u, id, rec, TRUE)
    \/ \E row_id \in RowIds, rec \in RowInputs : update_row(u, id, row_id, rec, TRUE)
    \/ \E row_id \in RowIds : delete_row(u, id, row_id, TRUE)
    \/ \E start \in FilterDates, end \in FilterDates : filter_rows(u, id, start, end, TRUE)

C2_Isolation ==
    [][ \A u \in Users, id \in DatasetIds(MaxDatasets) :
          ((\E d \in datasets : d.id = id /\ d.user # u) /\ Scoped(u, id))
          => /\ resp'.status = 404
             /\ resp'.body = <<"Dataset not found">>
             /\ resp'.summary = {} /\ resp'.rows = {}
             /\ datasets' = datasets /\ equipment' = equipment ]_vars

C2_Witness ==
    /\ resp.status = 404 /\ resp.user = "bob" /\ resp.op = "delete"
    /\ datasets # {} /\ equipment # {}
    /\ {d.id : d \in datasets} = DatasetIds(MaxDatasets)
    /\ \A d \in datasets : d.user = "alice"

\* C3 (Create is atomic): in every state in which no row has been edited and
\* no dataset deleted, every stored dataset has exactly the rows of its file
\* attached: as many as its total_equipment says.
C3_AtomicCreate ==
    edits = 0 => \A d \in datasets : Cardinality(EquipmentOf(d.id)) = d.total_equipment

\* C4 (Row count): right after a successful create, add_row, update_row or
\* delete_row, the dataset's total_equipment is the number of rows attached
\* to it.
C4_RowCount ==
    (resp.status \in {200, 201} /\ resp.op \in {"upload", "add_row", "update_row", "delete_row"})
    => \A d \in datasets :
          d.id = resp.dataset => d.total_equipment = Cardinality(EquipmentOf(d.id))

C4_Witness ==
    /\ resp.status = 201 /\ resp.op = "upload"
    /\ \E d \in datasets : d.id = resp.dataset /\ d.total_equipment = 2
    /\ edits > 0

\* C5 (Per-owner frame): a step of an upload or of a delete that a user
\* performs leaves the datasets and the rows of every other user unchanged.
RowsOf(u) == UNION {EquipmentOf(d.id) : d \in Owned(u)}

Performs(u) ==
    \/ \E p \in Procs : pc'[p] # pc[p] /\ req'[p].user = u
    \/ /\ resp = NoResp /\ resp' # NoResp /\ pc' = pc
       /\ resp'.op = "delete" /\ resp'.user = u

C5_OwnerFrame ==
    [][ \A a \in Users : Performs(a) =>
          \A b \in Users \ {a} : Owned(b)' = Owned(b) /\ RowsOf(b)' = RowsOf(b) ]_vars

C5_Witness ==
    /\ evicted["alice"] > 0
    /\ Owned("bob") # {} /\ RowsOf("bob") # {}
    /\ pc[2] = "cleanup_count"
    /\ edits > 0

\* C6 (Bounded history): whenever no upload is in progress, every user has
\* at most keep_count stored datasets.
C6_BoundedHistory ==
    AllIdle => \A u \in Users : Cardinality(Owned(u)) <= keep_count

\* The canonical fields none of whose synonyms is a trimmed header of csv.
ExpectedMissing(csv) ==
    LET NoSynonym(f) == Range(column_mapping[f]) \cap Range(StripAll(csv.headers)) = {}
    IN SelectSeq(required, NoSynonym)

\* A readable CSV table that came with the request.
Readable(csv) == csv.sent /\ EndsWithCsv(csv.filename) /\ csv.bytes # ""

\* C7 (SchemaError): an upload of a table in which some canonical field has
\* no synonym among the trimmed headers is answered with 400 and the list of
\* exactly those fields, and stores no dataset and no row.
C7_SchemaError ==
    [][ \A p \in Procs :
          ( /\ req[p] = NoReq /\ req'[p].op = "upload"
            /\ Readable(FileTable[req'[p].file])
            /\ ExpectedMissing(FileTable[req'[p].file]) # <<>> )
          => /\ resp'.status = 400
             /\ resp'.body = <<"Missing required columns">>
                                \o ExpectedMissing(FileTable[req'[p].file])
             /\ pc'[p] = "idle"
             /\ datasets' = datasets /\ equipment' = equipment ]_vars

C7_Witness ==
    /\ \E p \in Procs : Replied(p) /\ req[p].file = "no_pressure"
    /\ resp.status = 400
    /\ resp.body = <<"Missing required columns", "Pressure">>
    /\ datasets # {}

\* A table with every column present in which a cell of a numeric column is
\* no number.
BadNumeric(csv) ==
    /\ Readable(csv) /\ ExpectedMissing(csv) = <<>>
    /\ \E f \in {"Flowrate", "Pressure", "Temperature"} :
          \E r \in DOMAIN csv.rows : Column(csv, f)[r].k # "num"

\* C8 (ParseError): once the upload of a table with a non-numeric or blank
\* numeric cell has been answered, the answer is an error and the store
\* holds no dataset and no row of that upload, the database never having
\* failed.
C8_ParseError ==
    \A p \in Procs :
        (faults = 0 /\ Replied(p) /\ BadNumeric(FileTable[req[p].file]))
        => /\ resp.status >= 400
           /\ \A d \in datasets : d.id # req[p].dataset
           /\ EquipmentOf(req[p].dataset) = {}

\* A file that was sent as a CSV and holds no data row.
Rowless(csv) == csv.sent /\ EndsWithCsv(csv.filename) /\ csv.rows = <<>>

\* C9 (EmptyInputError): once the upload of a table without data rows has
\* been answered, the answer is an error and no dataset without rows has
\* been created, the database never having failed.
C9_EmptyInput ==
    \A p \in Procs :
        (faults = 0 /\ Replied(p) /\ Rowless(FileTable[req[p].file]))
        => /\ resp.status >= 400
           /\ \A d \in datasets : d.id # req[p].dataset

\* C10 (Cascade delete, no orphans): every stored Equipment row references
\* exactly one stored dataset, whatever uploads, deletions and cleanups
\* came before.
C10_NoOrphans ==
    \A e \in equipment : Cardinality({d \in datasets : d.id = e.dataset}) = 1

C10_Witness ==
    /\ edits > 0 /\ evicted["alice"] > 0
    /\ equipment # {}
    /\ Cardinality(datasets) < next_dataset_id - 2

\* The one answer a caller gets to a request for a dataset that is not theirs.
Denied(op, u) ==
    [op |-> op, user |-> u, status |-> 404, dataset |-> NoId,
     body |-> <<"Dataset not found">>, summary |-> {}, rows |-> {}]

\* C11 (Non-disclosure of existence): a dataset-scoped request for an id
\* the caller owns no dataset of gets one and the same answer whether a
\* dataset of another user has that id or none has, and every answer holds
\* only datasets and rows of the caller.
C11_NonDisclosure ==
    [][ \A u \in Users, id \in DatasetIds(MaxDatasets) :
          Scoped(u, id) =>
             /\ (GetDataset(id, u) = {} => resp' = Denied(resp'.op, u))
             /\ \A d \in resp'.summary : d.user = u
             /\ \A e \in resp'.rows : \E d \in Owned(u) : d.id = e.dataset ]_vars

\* bob is refused while one id is alice's dataset and another id is nobody's.
C11_Witness ==
    /\ resp = Denied("summary", "bob")
    /\ \E d \in datasets : d.user = "alice"
    /\ \E id \in DatasetIds(MaxDatasets) : \A d \in datasets : d.id # id

\* The category labels of a row set with the number of rows of each.
TypeCounts(rows) ==
    [l \in {e.equipment_type : e \in rows} |->
        Cardinality({e \in rows : e.equipment_type = l})]

\* A dataset that has as many rows attached as its total_equipment says.
Complete(d) ==
    d.total_equipment > 0 /\ Cardinality(EquipmentOf(d.id)) = d.total_equipment

\* C12 (Distribution invariant): the type distribution of every stored
\* dataset that has its rows attached maps exactly the category labels of
\* those rows (the label stored for a blank cell included) to the number of
\* rows with that label.
C12_Distribution ==
    \A d \in datasets :
        Complete(d) => d.type_distribution = TypeCounts(EquipmentOf(d.id))

\* C13 (Retention tie-break): when the cleanup deletes a dataset and keeps
\* one of the same owner with the same creation timestamp, the one it keeps
\* has the higher identifier.
C13_TieBreak ==
    [][ (\E p \in Procs : pc[p] = "cleanup_delete") =>
          \A d \in datasets \ datasets', k \in datasets' :
              (k.user = d.user /\ k.uploaded_at = d.uploaded_at) => k.id > d.id ]_vars

\* What the upload of the worked example must leave behind and answer: 201
\* and a dataset of three rows, every field read from the column its header
\* names.
Ingested3(p) ==
    /\ resp.status = 201
    /\ \E d \in datasets :
          /\ d.id = resp.dataset /\ d.user = req[p].user
          /\ d.total_equipment = 3
          /\ d.avg_flowrate = Val(1367) /\ d.avg_pressure = Val(600)
          /\ d.avg_temperature = Val(5000)
          /\ d.type_distribution = TypeCounts(EquipmentOf(d.id))
          /\ {e.name : e \in EquipmentOf(d.id)} = {"Pump-1", "Valve-1", "Pump-2"}
          /\ {e.pressure : e \in EquipmentOf(d.id)} = {Val(500), Val(600), Val(700)}
          /\ Cardinality(EquipmentOf(d.id)) = 3

\* C14 (as stated): the upload with the headers equip_name, Flow Rate,
\* Pressure, Temp, Type and three rows of numbers is ingested with count 3,
\* the database never having failed.
C14_Example ==
    \A p \in Procs :
        (faults = 0 /\ Replied(p) /\ req[p].file = "equip_name") => Ingested3(p)

\* C14 (amended): the upload with the headers equipment_name, Flow Rate,
\* Pressure, Temp, Type and three rows of numbers reconciles all five fields
\* and is ingested with count 3, the database never having failed.
C14_Amended ==
    \A p \in Procs :
        (faults = 0 /\ Replied(p) /\ req[p].file = "equipment_name") => Ingested3(p)

C14_Witness ==
    \E p \in Procs :
        /\ faults = 0 /\ Replied(p) /\ req[p].file = "equipment_name"
        /\ resp.status = 201 /\ Cardinality(EquipmentOf(resp.dataset)) = 3

\* m is the mean of field over all of rows, to the nearest hundredth: every
\* row counts in the sum and in the number of rows.
MeanOfAll(rows, field, m) ==
    /\ m.k = "val"
    /\ \A e \in rows : e[field].k = "val"
    /\ LET diff == m.n * Cardinality(rows) - SumOver(rows, field)
       IN 2 * (IF diff < 0 THEN -diff ELSE diff) <= Cardinality(rows)

\* C15 (Means): for every stored dataset that has its rows attached, each
\* stored mean is the arithmetic mean of that field over all rows of the
\* dataset, rounded to two decimal places.
C15_Means ==
    \A d \in datasets :
        Complete(d) =>
            /\ MeanOfAll(EquipmentOf(d.id), "flowrate", d.avg_flowrate)
            /\ MeanOfAll(EquipmentOf(d.id), "pressure", d.avg_pressure)
            /\ MeanOfAll(EquipmentOf(d.id), "temperature", d.avg_temperature)

\* A dataset record with no rows counted, means 0.0 and no category.
ZeroSummary(d) ==
    /\ d.total_equipment = 0
    /\ d.avg_flowrate = Val(0) /\ d.avg_pressure = Val(0) /\ d.avg_temperature = Val(0)
    /\ DOMAIN d.type_distribution = {}

\* C16 (Deleting the only row): delete_row on the one row of a dataset of
\* the caller succeeds and leaves the dataset stored with row count 0,
\* means 0.0, an empty distribution and no row.
C16_DeleteOnlyRow ==
    [][ \A u \in Users, id \in DatasetIds(MaxDatasets), row_id \in RowIds :
          ( /\ delete_row(u, id, row_id, FALSE)
            /\ GetDataset(id, u) # {}
            /\ {e.id : e \in EquipmentOf(id)} = {row_id} )
          => /\ resp'.status = 200
             /\ \E d \in datasets' :
                   d.id = id /\ d.user = u /\ ZeroSummary(d) /\ resp'.summary = {d}
             /\ \A e \in equipment' : e.dataset # id
             /\ equipment' = equipment \ EquipmentOf(id) ]_vars

C16_Witness ==
    /\ resp.op = "delete_row" /\ resp.status = 200
    /\ EquipmentOf(resp.dataset) = {}
    /\ \E d \in datasets : d.id = resp.dataset /\ ZeroSummary(d)

C18_FilterReadOnly ==
    [][ \A u \in Users, id \in DatasetIds(MaxDatasets), start \in FilterDates,
           end \in FilterDates :
          filter_rows(u, id, start, end, TRUE)
          => datasets' = datasets /\ equipment' = equipment ]_vars

\* A filter has returned a summary that differs from the stored one.
C18_Witness ==
    /\ resp.op = "filter" /\ resp.status = 200
    /\ resp.rows # EquipmentOf(resp.dataset)
    /\ \E d \in datasets : d.id = resp.dataset /\ d \notin resp.summary /\ Complete(d)

\* C19 (Empty range): a filter call with start later than end on a dataset
\* of the caller answers 200 with no rows and a summary of count 0, means
\* 0.0 and an empty distribution.
C19_EmptyRange ==
    [][ \A u \in Users, id \in DatasetIds(MaxDatasets), start \in FilterDates,
           end \in FilterDates :
          (filter_rows(u, id, start, end, TRUE) /\ start > end /\ GetDataset(id, u) # {})
          => /\ resp'.status = 200
             /\ resp'.rows = {}
             /\ Cardinality(resp'.summary) = 1
             /\ \A d \in resp'.summary : d.id = id /\ ZeroSummary(d) ]_vars

\* A filter of a dataset that has rows has returned none of them.
C19_Witness ==
    /\ resp.op = "filter" /\ resp.status = 200
    /\ resp.rows = {} /\ \A d \in resp.summary : ZeroSummary(d)
    /\ EquipmentOf(resp.dataset) # {}
    /\ \A e \in EquipmentOf(resp.dataset) : e.recorded_at \in FilterDates

\* C20 (Deletion is terminal): identifiers are handed out in ascending order
\* from next_dataset_id, so an identifier below it that no stored dataset
\* carries belongs to a deleted dataset; no step makes a dataset with such
\* an identifier exist again.
C20_DeletionTerminal ==
    [][ \A d \in datasets' :
          (\A x \in datasets : x.id # d.id) => d.id = next_dataset_id ]_vars

\* The step in which the upload_csv call of worker p ends with an error
\* answer to the client.
UploadFails(p) ==
    /\ resp = NoResp /\ resp'.op = "upload" /\ resp'.status >= 400
    /\ pc'[p] = "idle" /\ req'[p].op = "upload"

\* C21 (A failed upload changes nothing): with one request served at a
\* time, everything stored but the call's own dataset was there before the
\* call; the step that ends an upload with a 400 or a 500 leaves every such
\* dataset and every such row stored as it was.
C21_FailedUploadFrame ==
    [][ \A p \in Procs :
          UploadFails(p)
          => /\ \A d \in datasets : d.id # req'[p].dataset => d \in datasets'
             /\ \A e \in equipment : e.dataset # req'[p].dataset => e \in equipment' ]_vars

\* The place of header text h in the synonym list of field f, 0 if it is
\* not in the list: texts are compared as they are, letter case included.
ListPlace(f, h) ==
    LET hits == {i \in DOMAIN column_mapping[f] : column_mapping[f][i] = h}
    IN IF hits = {} THEN 0 ELSE CHOOSE i \in hits : TRUE

\* The columns of csv whose trimmed header is a synonym of field f.
SynonymColumns(csv, f) ==
    {i \in DOMAIN csv.headers : ListPlace(f, Strip(csv.headers[i])) > 0}

\* Among them, the column whose header stands first in the list of f.
PriorityColumn(csv, f) ==
    CHOOSE i \in SynonymColumns(csv, f) :
        \A j \in SynonymColumns(csv, f) :
            ListPlace(f, Strip(csv.headers[i])) <= ListPlace(f, Strip(csv.headers[j]))

\* The field values of the rows of csv, each read from its priority column.
PriorityRows(csv) ==
    { [ name |-> CharValue(csv.rows[r][PriorityColumn(csv, "Equipment Name")]),
        equipment_type |-> CharValue(csv.rows[r][PriorityColumn(csv, "Type")]),
        flowrate |-> FloatValue(csv.rows[r][PriorityColumn(csv, "Flowrate")]),
        pressure |-> FloatValue(csv.rows[r][PriorityColumn(csv, "Pressure")]),
        temperature |-> FloatValue(csv.rows[r][PriorityColumn(csv, "Temperature")]) ] :
      r \in DOMAIN csv.rows }

\* The field values of stored rows.
Fields(rows) ==
    { [ name |-> e.name, equipment_type |-> e.equipment_type, flowrate |-> e.flowrate,
        pressure |-> e.pressure, temperature |-> e.temperature ] : e \in rows }

\* C22 (Reconciliation priority): once the upload of a readable table has
\* been answered with no storage failure, it is refused with 400 if some
\* field has no header that equals one of its synonyms letter for letter
\* after trimming, and otherwise every stored field was read from the
\* column whose trimmed header comes first in the field's synonym list,
\* wherever that column stands in the file.
C22_Priority ==
    \A p \in Procs :
        (faults = 0 /\ Replied(p) /\ Readable(FileTable[req[p].file]))
        => LET csv == FileTable[req[p].file]
           IN IF \E f \in DOMAIN column_mapping : SynonymColumns(csv, f) = {}
              THEN resp.status = 400 /\ req[p].dataset = NoId
              ELSE /\ resp.status = 201
                   /\ Fields(EquipmentOf(resp.dataset)) = PriorityRows(csv)

\* Both column orders have been ingested; the name was read from the Name
\* column and the temperature from the Temp column.
C22_Witness ==
    /\ \E p \in Procs : Replied(p) /\ req[p].file = "syn_rev" /\ resp.status = 201
    /\ Cardinality(datasets) = 2
    /\ \A d \in datasets :
          Fields(EquipmentOf(d.id)) =
              {[ name |-> "Cap-1", equipment_type |-> "Pump", flowrate |-> Val(1000),
                 pressure |-> Val(500), temperature |-> Val(10000) ]}
    /\ \E d \in datasets : d.avg_temperature = Val(10000)

\* C23 (Upload history): a history answer lists only datasets of the
\* caller, at most five of them, none before an older one, and its count
\* is the length of the list.
C23_History ==
    (resp.op = "history" /\ resp.status = 200)
    => /\ \A i \in DOMAIN resp.list : resp.list[i].user = resp.user
       /\ Len(resp.list) <= 5
       /\ \A i \in DOMAIN resp.list, j \in DOMAIN resp.list :
             i < j => resp.list[i].uploaded_at >= resp.list[j].uploaded_at
       /\ resp.count = Len(resp.list)

\* The dataset of the answered upload of worker p is stored with every row
\* of its file attached.
StoredWhole(p) ==
    /\ \E d \in datasets : d.id = req[p].dataset /\ d.user = req[p].user
    /\ Cardinality(EquipmentOf(req[p].dataset)) = Len(FileTable[req[p].file].rows)

\* C27 (Uploads against concurrent deletions): however uploads, deletions
\* and cleanups interleave, an upload that has inserted its dataset and
\* whose file has rows of numbers only is answered 201, its dataset is
\* then stored with all of its rows, and no stored row is without its
\* dataset.
C27_UploadSurvives ==
    /\ \A p \in Procs :
          ( /\ Replied(p) /\ faults = 0 /\ req[p].dataset # NoId
            /\ ~RendersNaN(FileTable[req[p].file]) )
          => resp.status = 201 /\ StoredWhole(p)
    /\ \A e \in equipment : \E d \in datasets : d.id = e.dataset

\* get_dataset_summary(u, id) would answer 200: the lookup finds the
\* dataset and the body renders.
SummarySucceeds(u, id) ==
    GetDataset(id, u) # {} /\ ~BodyHasNaN(GetDataset(id, u), EquipmentOf(id))

\* C28 (The cleanup spares the new dataset): with one request served at a
\* time, when an upload has answered 201 with a dataset id, that dataset is
\* stored and a get_dataset_summary of it by the same user succeeds, the
\* cleanup at the end of the upload having deleted others at most.
C28_NewDatasetKept ==
    \A p \in Procs :
        (Replied(p) /\ resp.status = 201)
        => /\ resp.dataset = req[p].dataset
           /\ \E d \in datasets : d.id = resp.dataset
           /\ SummarySucceeds(req[p].user, resp.dataset)

\* The cleanup has deleted at the end of two uploads, the second of them
\* the one just answered; its dataset is the newest of the five left.
C28_Witness ==
    \E p \in Procs :
        /\ Replied(p) /\ resp.status = 201 /\ req[p].user = "alice"
        /\ Cardinality(Owned("alice")) = keep_count
        /\ evicted["alice"] >= 2
        /\ resp.dataset = next_dataset_id - 1
        /\ \A d \in Owned("alice") : d.uploaded_at > evicted["alice"]

\* C26 (Row identifiers of the upload answer): once an upload has answered
\* 201, the entries of its equipment_list carry the identifiers of the
\* stored rows of the new dataset, the ones get_dataset_summary lists, each
\* with the values of the row it names.
C26_RowIds ==
    \A p \in Procs :
        (Replied(p) /\ resp.status = 201)
        => LET listed == {SummaryItem(e) : e \in EquipmentOf(resp.dataset)}
           IN /\ {it.id : it \in Range(resp.equipment_list)} = {it.id : it \in listed}
              /\ \A it \in Range(resp.equipment_list) :
                    \E st \in listed : st.id = it.id /\ st.flowrate = it.flowrate

\* An entry without its identifier.
Unnumbered(it) ==
    [ name |-> it.name, type |-> it.type, flowrate |-> it.flowrate,
      pressure |-> it.pressure, temperature |-> it.temperature ]

\* C29 (Create/read round trip): once an upload has answered 201 and
\* nothing has changed since, what get_dataset_summary reads for the
\* returned id is what the upload answered: the same count, means and
\* distribution, as many rows, and the same name, type, flowrate, pressure
\* and temperature values.
C29_RoundTrip ==
    \A p \in Procs :
        (Replied(p) /\ resp.status = 201)
        => /\ SummarySucceeds(req[p].user, resp.dataset)
           /\ \A d \in GetDataset(resp.dataset, req[p].user) :
                 /\ SummaryStats(d) = resp.stats
                 /\ Cardinality(EquipmentOf(d.id)) = Len(resp.equipment_list)
                 /\ {Unnumbered(SummaryItem(e)) : e \in EquipmentOf(d.id)}
                       = {Unnumbered(it) : it \in Range(resp.equipment_list)}

\* C24 (Client logout clears the credential): when logout returns, with
\* whatever status, the client's token is None and is_authenticated is
\* False; while the token is None no request carries an Authorization
\* header, and the token is set again by the answer to a successful login
\* or register only.
C24_LogoutClears ==
    [][ /\ APIService_logout_returns => (api'.token = NoKey /\ ~is_authenticated')
        /\ (api.token = NoKey /\ ~sent.pending /\ sent'.pending) => sent'.auth = NoKey
        /\ (api.token = NoKey /\ api'.token # NoKey)
             => \/ Answered("login") /\ resp.status = 200
                \/ Answered("register") /\ resp.status = 201 ]_vars

\* logout has returned and the client holds no token, while the key it
\* sent still authenticates: the server answered 500.
C24_Witness ==
    /\ sent.op = "logout" /\ ~sent.pending /\ api.token = NoKey
    /\ sent.auth # NoKey /\ TokenUser(sent.auth) # ""
    /\ faults > 0

\* C25 (Server logout invalidates the token): a key whose logout has
\* succeeded is the key of no token, so TokenAuthentication accepts it on
\* no request, for as long as its user has not logged in again.
C25_TokenInvalidated ==
    \A r \in revoked : TokenUser(r.key) = "" /\ authtoken_token[r.user] # r.key

\* alice has logged in, out, in again and out again; a request with the
\* second key has just been refused.
C25_Witness ==
    /\ \E r \in revoked : r.user = "alice" /\ r.key >= 2
    /\ resp.op = "current_user" /\ resp.status = 401
    /\ authtoken_token["alice"] = NoKey

\* C30: the desktop client never has a dataset-scoped request (PDF export,
\* date filter, add, update or delete of a row) on its way while
\* MainWindow.selected_dataset_id is None, whatever uploads, loads from the
\* history, deletions of datasets and row buttons came before.
C30_SelectedWhenScoped ==
    (sent.pending /\ sent.op \in ScopedOps) => main_window.selected_dataset_id # NoId
=========================================================================
